---------------------------- MODULE Spec2Model ----------------------------
(***************************************************************************)
(* The single-pass Lua compiler of src/compiler/parser.rs as a state       *)
(* machine.  The recursive descent is made explicit: `stack` is the call   *)
(* stack of the parser, one frame per active parsing function, each frame  *)
(* holding that function's local variables and the point (pc) at which it  *)
(* resumes.  One action models one straight-line stretch of a parsing      *)
(* function (from its entry, or from the return of a call it made, to the  *)
(* next call it makes or to its own return).  The `?` operator is the      *)
(* action Propagate.                                                       *)
(***************************************************************************)
EXTENDS Integers, Sequences, FiniteSets, TLC

VARIABLES
    program,       \* the source text compiled (see Text)
    pos,           \* index in source of the token the next call of next() returns
    chunk,         \* Parser.chunk
    other_chunks,  \* Parser.other_chunks
    nest_level,    \* Parser.nest_level
    locals,        \* Parser.locals: sequence of <<name, level>>
    stack,         \* call stack of the recursive descent (last = innermost)
    result,        \* value returned by the call that returned last
    status,        \* "running", "returned" (parse_str returned), "panicked"
    declared,      \* history: per open unit, 1 + highest slot declared in it
    entered,       \* history: per open block, the scope list and the level
                   \* when the block was entered
    prev           \* history: what the last step started from (see Before)

vars == <<program, pos, chunk, other_chunks, nest_level, locals, stack, result,
          status, declared, entered, prev>>

---------------------------------------------------------------------------
(* Program constants and bounds *)

\* u8::MAX
U8_MAX == 255

\* `x as u8`
U8(x) == x % (U8_MAX + 1)

Max(a, b) == IF a >= b THEN a ELSE b
Min(a, b) == IF a <= b THEN a ELSE b

---------------------------------------------------------------------------
(* Instructions (instr.rs): a tuple, the variant's name first *)

Jump(o)            == <<"Jump", o>>
BranchFalse(o)     == <<"BranchFalse", o>>
BranchTrueKeep(o)  == <<"BranchTrueKeep", o>>
BranchFalseKeep(o) == <<"BranchFalseKeep", o>>
Pop                == <<"Pop">>
GetGlobal(i)       == <<"GetGlobal", i>>
SetGlobal(i)       == <<"SetGlobal", i>>
GetLocal(i)        == <<"GetLocal", i>>
SetLocal(i)        == <<"SetLocal", i>>
NewTable           == <<"NewTable">>
GetField(i)        == <<"GetField", i>>
SetField(o, i)     == <<"SetField", o, i>>
InitField(i)       == <<"InitField", i>>
GetTable           == <<"GetTable">>
SetTable(o)        == <<"SetTable", o>>
PushNil            == <<"PushNil">>
PushBool(b)        == <<"PushBool", IF b THEN "true" ELSE "false">>
PushNum(i)         == <<"PushNum", i>>
PushString(i)      == <<"PushString", i>>
ForPrep(s, o)      == <<"ForPrep", s, o>>
ForLoop(s, o)      == <<"ForLoop", s, o>>
Call(n, r)         == <<"Call", n, r>>
Closure(i)         == <<"Closure", i>>
Return             == <<"Return">>
Simple(name)       == <<name>>

Op(instr) == instr[1]

\* The values an instruction leaves on the evaluation stack, less those it
\* takes off
stack_effect(instr) ==
    LET op == Op(instr) IN
    CASE op \in {"PushNil", "PushBool", "PushNum", "PushString", "GetGlobal",
                 "GetLocal", "NewTable", "Closure"} -> 1
      [] op \in {"Jump", "BranchTrueKeep", "BranchFalseKeep", "GetField", "Not",
                 "Length", "Negate"} -> 0
      [] op \in {"Pop", "BranchFalse", "SetGlobal", "SetLocal", "InitField",
                 "GetTable", "Add", "Subtract", "Multiply", "Divide", "Pow",
                 "Mod", "Concat", "Less", "LessEqual", "Greater",
                 "GreaterEqual", "Equal", "NotEqual"} -> -1
      [] op = "SetField" -> -2
      [] op = "SetTable" -> -3
      [] op = "Call" -> instr[3] - instr[2] - 1
      [] OTHER -> 0

\* The instruction index a jump or branch at 0-based index i with offset o
\* transfers control to.
Target(i, o) == i + 1 + o

---------------------------------------------------------------------------
(* Chunk, PlaceExp, PrefixExp, Result *)

DefaultChunk ==
    [code |-> <<>>, number_literals |-> <<>>, string_literals |-> <<>>,
     num_locals |-> 0, nested |-> <<>>]

Local(i)        == <<"Local", i>>
Global(i)       == <<"Global", i>>
TableIndex      == <<"TableIndex">>
FieldAccess(i)  == <<"FieldAccess", i>>
FunctionCall(n) == <<"FunctionCall", n>>
Parenthesized   == <<"Parenthesized">>

IsPlace(e) == e[1] \in {"Local", "Global", "TableIndex", "FieldAccess"}

Ok(v)  == [ok |-> TRUE, val |-> v]
Unit   == <<>>

\* Error::new(kind, line, column)
Error(kind, line, column) == [kind |-> kind, line |-> line, column |-> column]
Err(e) == [ok |-> FALSE, err |-> e]

\* ErrorKind::is_recoverable
is_recoverable(kind) == kind \in {"UnclosedString", "UnexpectedEof", "UnexpectedTok"}

---------------------------------------------------------------------------
(* Option *)

None    == <<>>
Some(v) == <<v>>
IsSome(o) == o # None
Get(o)  == o[1]

---------------------------------------------------------------------------
(* Pure helpers of parser.rs *)

\* For comparison, a scan from the front: the first binding named name
find_first_local(ls, name) ==
    IF \E k \in 1..Len(ls) : ls[k][1] = name
    THEN Some((CHOOSE k \in 1..Len(ls) :
                   /\ ls[k][1] = name
                   /\ \A m \in 1..(k - 1) : ls[m][1] # name) - 1)
    ELSE None

\* find_last_local: the backward scan, i running from locals.len() down.
RECURSIVE find_last_local_from(_, _, _)
find_last_local_from(ls, name, i) ==
    IF i > 0
    THEN IF ls[i][1] = name          \* `i -= 1; locals[i].0 == name`, 0-based i-1
         THEN Some(i - 1)
         ELSE find_last_local_from(ls, name, i - 1)
    ELSE None

find_last_local(ls, name) == find_last_local_from(ls, name, Len(ls))

\* queue.iter().position(|y| y == x), 0-based
position_from(queue, x, i) ==
    LET found == {k \in i..Len(queue) : queue[k] = x} IN
    IF found = {} THEN None
    ELSE Some((CHOOSE k \in found : \A m \in found : k <= m) - 1)

position(queue, x) == position_from(queue, x, 1)

\* For comparison: every entry is appended, equal to an earlier one or not
find_or_add_appending(queue, x) ==
    LET i == Len(queue) IN
    IF i = U8_MAX
    THEN [queue |-> queue, ret |-> None]
    ELSE [queue |-> Append(queue, x), ret |-> Some(U8(i))]

\* find_or_add: the queue afterwards and the returned Option<u8>
find_or_add(queue, x) ==
    LET found == position(queue, x) IN
    IF IsSome(found)
    THEN [queue |-> queue, ret |-> Some(U8(Get(found)))]
    ELSE LET i == Len(queue) IN
         IF i = U8_MAX
         THEN [queue |-> queue, ret |-> None]
         ELSE [queue |-> Append(queue, x), ret |-> Some(U8(i))]

\* For comparison: only the last entry is popped
pop_last(ls, lvl) ==
    IF Len(ls) > 0 /\ ls[Len(ls)][2] = lvl THEN SubSeq(ls, 1, Len(ls) - 1) ELSE ls

\* level_down: the scope list after popping every trailing entry of level lvl
RECURSIVE pop_level(_, _)
pop_level(ls, lvl) ==
    IF Len(ls) > 0 /\ ls[Len(ls)][2] = lvl
    THEN pop_level(SubSeq(ls, 1, Len(ls) - 1), lvl)
    ELSE ls

---------------------------------------------------------------------------
(* Source texts *)

\* The text of a token type that has only one spelling
Spelling(typ) ==
    CASE typ = "Assign" -> <<"=">>
      [] typ = "Comma" -> <<",">>
      [] typ = "Semi" -> <<";">>
      [] typ = "Dot" -> <<".">>
      [] typ = "Colon" -> <<":">>
      [] typ = "LParen" -> <<"(">>
      [] typ = "RParen" -> <<")">>
      [] typ = "LSquare" -> <<"[">>
      [] typ = "RSquare" -> <<"]">>
      [] typ = "LCurly" -> <<"{">>
      [] typ = "RCurly" -> <<"}">>
      [] typ = "Plus" -> <<"+">>
      [] typ = "Minus" -> <<"-">>
      [] typ = "Star" -> <<"*">>
      [] typ = "Slash" -> <<"/">>
      [] typ = "Mod" -> <<"%">>
      [] typ = "Caret" -> <<"^">>
      [] typ = "Hash" -> <<"#">>
      [] typ = "Less" -> <<"<">>
      [] typ = "Greater" -> <<">">>
      [] typ = "LessEqual" -> <<"<", "=">>
      [] typ = "GreaterEqual" -> <<">", "=">>
      [] typ = "Equal" -> <<"=", "=">>
      [] typ = "NotEqual" -> <<"~", "=">>
      [] typ = "DotDot" -> <<".", ".">>
      [] typ = "DotDotDot" -> <<".", ".", ".">>
      [] typ = "If" -> <<"i", "f">>
      [] typ = "Then" -> <<"t", "h", "e", "n">>
      [] typ = "Else" -> <<"e", "l", "s", "e">>
      [] typ = "ElseIf" -> <<"e", "l", "s", "e", "i", "f">>
      [] typ = "End" -> <<"e", "n", "d">>
      [] typ = "While" -> <<"w", "h", "i", "l", "e">>
      [] typ = "Do" -> <<"d", "o">>
      [] typ = "Repeat" -> <<"r", "e", "p", "e", "a", "t">>
      [] typ = "Until" -> <<"u", "n", "t", "i", "l">>
      [] typ = "For" -> <<"f", "o", "r">>
      [] typ = "Local" -> <<"l", "o", "c", "a", "l">>
      [] typ = "Function" -> <<"f", "u", "n", "c", "t", "i", "o", "n">>
      [] typ = "And" -> <<"a", "n", "d">>
      [] typ = "Or" -> <<"o", "r">>
      [] typ = "Not" -> <<"n", "o", "t">>
      [] typ = "Nil" -> <<"n", "i", "l">>
      [] typ = "True" -> <<"t", "r", "u", "e">>
      [] typ = "False" -> <<"f", "a", "l", "s", "e">>
      [] typ = "EndOfFile" -> <<>>

\* Lexemes: a token before its place in the text is known
K(typ)  == [typ |-> typ, text |-> Spelling(typ)]
Id(c)   == [typ |-> "Identifier", text |-> <<c>>]
Num(t)  == [typ |-> "LiteralNumber", text |-> t]
Hex(t)  == [typ |-> "LiteralHexNumber", text |-> t]
Str(c)  == [typ |-> "LiteralString", text |-> <<"\"", c, "\"">>]

\* The length of the text of lexemes lo .. hi, a space after each
RECURSIVE text_length(_, _, _)
text_length(lexemes, lo, hi) ==
    IF lo > hi THEN 0
    ELSE IF lo = hi THEN Len(lexemes[lo].text) + 1
    ELSE LET mid == (lo + hi) \div 2
         IN text_length(lexemes, lo, mid) + text_length(lexemes, mid + 1, hi)

\* The tokens of lexemes lo .. hi, one space apart, the first at start
RECURSIVE tokens_from(_, _, _, _)
tokens_from(lexemes, lo, hi, start) ==
    IF lo > hi THEN <<>>
    ELSE IF lo = hi
    THEN << [typ |-> lexemes[lo].typ, text |-> lexemes[lo].text, start |-> start,
             len |-> Len(lexemes[lo].text)] >>
    ELSE LET mid == (lo + hi) \div 2
         IN tokens_from(lexemes, lo, mid, start)
              \o tokens_from(lexemes, mid + 1, hi,
                             start + text_length(lexemes, lo, mid))

\* The tokens of the text made of the lexemes, EndOfFile last
Tokenize(lexemes) ==
    tokens_from(lexemes, 1, Len(lexemes), 0)
      \o << [typ |-> "EndOfFile", text |-> <<>>,
             start |-> Max(text_length(lexemes, 1, Len(lexemes)) - 1, 0),
             len |-> 0] >>

---------------------------------------------------------------------------
(* The sources compiled: the programs of the test suite of parser.rs *)

a == Id("a")
b == Id("b")
id_c == Id("c")
id_i == Id("i")
id_j == Id("j")
t == Id("t")
x == Id("x")
y == Id("y")
z == Id("z")
print == [typ |-> "Identifier", text |-> <<"p", "r", "i", "n", "t">>]
type  == [typ |-> "Identifier", text |-> <<"t", "y", "p", "e">>]
n1 == Num(<<"1">>)
n2 == Num(<<"2">>)
n3 == Num(<<"3">>)
n4 == Num(<<"4">>)
n5 == Num(<<"5">>)
n6 == Num(<<"6">>)
n7 == Num(<<"7">>)
n10 == Num(<<"1", "0">>)
n21 == Num(<<"2", "1">>)

TestSources ==
    { << x, K("Assign"), n5, K("Plus"), n6 >>,                            \* test01
      << x, K("Assign"), K("Minus"), n5, K("Caret"), n2 >>,               \* test02
      << x, K("Assign"), n5, K("Plus"), K("True"), K("DotDot"), Str("h") >>,
      << x, K("Assign"), n1, K("DotDot"), n2, K("Plus"), n3 >>,           \* test04
      << x, K("Assign"), n2, K("Caret"), K("Minus"), n3 >>,               \* test05
      << x, K("Assign"), K("Not"), K("Not"), n1 >>,                       \* test06
      << a, K("Assign"), n5 >>,                                           \* test07
      << x, K("Assign"), K("True"), K("And"), K("False") >>,              \* test08
      << x, K("Assign"), n5, K("Or"), K("Nil"), K("And"), K("True") >>,   \* test09
      << K("If"), K("True"), K("Then"), a, K("Assign"), n5, K("End") >>,  \* test10
      << K("If"), K("True"), K("Then"), a, K("Assign"), n5,               \* test11
         K("If"), K("True"), K("Then"), b, K("Assign"), n4, K("End"), K("End") >>,
      << K("If"), K("True"), K("Then"), a, K("Assign"), n5,               \* test12
         K("Else"), a, K("Assign"), n4, K("End") >>,
      << K("If"), K("True"), K("Then"), a, K("Assign"), n5,               \* test13
         K("ElseIf"), n6, K("Equal"), n7, K("Then"), a, K("Assign"), n3,
         K("Else"), a, K("Assign"), n4, K("End") >>,
      << K("While"), a, K("Less"), n10, K("Do"),                          \* test14
         a, K("Assign"), a, K("Plus"), n1, K("End") >>,
      << K("Repeat"), K("Local"), x, K("Assign"), n5, K("Until"),         \* test15
         a, K("Equal"), b, y, K("Assign"), n4 >>,
      << K("Local"), id_i, id_i, K("Assign"), n2 >>,                            \* test16
      << K("Local"), id_i, K("Comma"), id_j, print, K("LParen"), id_j, K("RParen") >>,
      << K("Local"), id_i, K("Do"), K("Local"), id_i, x, K("Assign"), id_i,        \* test18
         K("End"), x, K("Assign"), id_i >>,
      << K("Do"), K("Local"), id_i, x, K("Assign"), id_i, K("End"),             \* test19
         x, K("Assign"), id_i >>,
      << K("Local"), id_i, K("If"), K("False"), K("Then"), K("Local"), id_i,    \* test20
         K("Else"), x, K("Assign"), id_i, K("End") >>,
      << K("For"), id_i, K("Assign"), n1, K("Comma"), n5, K("Do"),           \* test21
         x, K("Assign"), id_i, K("End") >>,
      << a, K("Comma"), b, K("Assign"), n1 >>,                            \* test22
      << a, K("Comma"), b, K("Assign"), n1, K("Comma"), n2 >>,            \* test23
      << a, K("Comma"), b, K("Assign"), n1, K("Comma"), n2, K("Comma"), n3 >>,
      << print, K("LParen"), K("RParen") >>,                              \* test25
      << y, K("Assign"), K("LCurly"), x, K("Assign"), n5, K("Comma"),     \* test26
         K("RCurly") >>,
      << K("Local"), x, K("Assign"), t, K("Dot"), x, K("Dot"), y >>,      \* test27
      << x, K("Assign"), K("Function"), K("LParen"), K("RParen"), K("End") >>,
      << x, K("Assign"), K("Function"), K("LParen"), K("RParen"),         \* test29
         K("Local"), y, K("Assign"), n7, K("End") >>,
      << z, K("Assign"), K("Function"), K("LParen"), K("RParen"),         \* test30
         K("Local"), z, K("Assign"), n21, K("End"),
         x, K("Assign"), K("Function"), K("LParen"), K("RParen"),
         K("Local"), y, K("Assign"), K("Function"), K("LParen"), K("RParen"),
         K("End"), print, K("LParen"), y, K("RParen"), K("End") >>,
      << K("Local"), x, K("Assign"), type, K("LParen"), n4, K("RParen") >>,
      << K("Local"), type, K("Comma"), print,                             \* test32
         print, K("LParen"), type, K("LParen"), K("Nil"), K("RParen"), K("RParen") >>
    }

---------------------------------------------------------------------------
(* The sources compiled: families of programs, built from their parts *)

\* Bounds of the families
MaxDepth    == 2    \* nesting depth of the control-flow constructs
MaxDecls    == 2    \* statements in a block of declarations
MaxOperands == 3    \* operands of an and/or expression
MaxTargets  == 3    \* targets of an assignment
MaxUnary    == 2    \* unary operators stacked on one operand
MaxFunctions == 2   \* function literals in a row

Kw(typ) == << K(typ) >>

\* sets of lexeme sequences, concatenated elementwise
Cat2(A, B) == {p \o q : p \in A, q \in B}

\* the sequences of 0 .. n members of S, concatenated
RECURSIVE UpTo(_, _)
UpTo(S, n) == IF n = 0 THEN {<<>>} ELSE {<<>>} \cup Cat2(S, UpTo(S, n - 1))

\* the sequences of exactly n members of S, concatenated
RECURSIVE Exactly(_, _)
Exactly(S, n) == IF n = 0 THEN {<<>>} ELSE Cat2(S, Exactly(S, n - 1))

FunctionHead == <<K("Function"), K("LParen"), K("RParen")>>

\* Control flow: every construct around every body of B; the other arms of
\* an if chain hold `b = 1`.
Filler == <<b, K("Assign"), n1>>

Constructs(B) ==
       { Kw("If") \o <<a>> \o Kw("Then") \o p \o Kw("End") : p \in B }
  \cup { Kw("If") \o <<a>> \o Kw("Then") \o p \o Kw("Else") \o Filler \o Kw("End")
           : p \in B }
  \cup { Kw("If") \o <<a>> \o Kw("Then") \o Filler \o Kw("Else") \o p \o Kw("End")
           : p \in B }
  \cup { Kw("If") \o <<a>> \o Kw("Then") \o p \o Kw("ElseIf") \o <<a>> \o Kw("Then")
           \o Filler \o Kw("End") : p \in B }
  \cup { Kw("If") \o <<a>> \o Kw("Then") \o Filler \o Kw("ElseIf") \o <<a>>
           \o Kw("Then") \o p \o Kw("Else") \o Filler \o Kw("End") : p \in B }
  \cup { Kw("If") \o <<a>> \o Kw("Then") \o Filler \o Kw("ElseIf") \o <<a>>
           \o Kw("Then") \o Filler \o Kw("Else") \o p \o Kw("End") : p \in B }
  \cup { Kw("While") \o <<a>> \o Kw("Do") \o p \o Kw("End") : p \in B }
  \cup { Kw("Repeat") \o p \o Kw("Until") \o <<a>> : p \in B }
  \cup { Kw("For") \o <<a, K("Assign"), n1, K("Comma"), n2>> \o Kw("Do") \o p
           \o Kw("End") : p \in B }
  \cup { Kw("For") \o <<a, K("Assign"), n2, K("Comma"), n2, K("Comma"), n2>>
           \o Kw("Do") \o p \o Kw("End") : p \in B }
  \cup { Kw("Do") \o p \o Kw("End") : p \in B }
  \cup { <<b, K("Assign")>> \o FunctionHead \o p \o Kw("End") : p \in B }
  \cup { <<K("Local"), b>> \o p : p \in B }

\* a branch or a loop around every body of B
Around(B) ==
       { Kw("If") \o <<a>> \o Kw("Then") \o p \o Kw("End") : p \in B }
  \cup { Kw("While") \o <<a>> \o Kw("Do") \o p \o Kw("End") : p \in B }
  \cup { Kw("Repeat") \o p \o Kw("Until") \o <<a>> : p \in B }
  \cup { Kw("For") \o <<a, K("Assign"), n2, K("Comma"), n2>>
           \o Kw("Do") \o p \o Kw("End") : p \in B }

\* Constructs nested d deep: every construct at the two innermost levels, a
\* branch or a loop around them beyond that
RECURSIVE Nested(_)
Nested(d) ==
    IF d = 0
    THEN { <<>>, Filler, <<K("Local"), a>> }
    ELSE IF d <= 2 THEN Constructs(Nested(d - 1))
    ELSE Around(Nested(d - 1))

\* the constructs with a condition that branches itself
Conditions ==
       { Kw("If") \o <<a, K("Or"), b>> \o Kw("Then") \o Filler \o Kw("End"),
         Kw("If") \o <<a, K("And"), b>> \o Kw("Then") \o Filler \o Kw("Else")
             \o Filler \o Kw("End"),
         Kw("While") \o <<a, K("Or"), b>> \o Kw("Do") \o Filler \o Kw("End"),
         Kw("While") \o <<a>> \o Kw("Do") \o Kw("While") \o <<a, K("And"), b>>
             \o Kw("Do") \o Filler \o Kw("End") \o Kw("End"),
         Kw("Repeat") \o Filler \o Kw("Until") \o <<a, K("Or"), b>> }

ControlSources ==
    UNION { Nested(d) : d \in 1..MaxDepth } \cup Conditions

\* Scopes: declarations and uses of a and b, in blocks and function bodies
Decl == { <<K("Local"), a>>, <<K("Local"), b>> }
Use  == <<b, K("Assign"), a>>

Scoped(B) ==
       { Kw("Do") \o p \o Kw("End") : p \in B }
  \cup { <<b, K("Assign")>> \o FunctionHead \o p \o Kw("End") : p \in B }

ScopeSources ==
    LET Inner == Cat2(UpTo(Decl, MaxDecls), {<<>>, Use})
        Mid   == Scoped(Inner)
                 \cup Scoped(Cat2(Cat2(Decl, Scoped(Cat2(Decl, {Use}))), {Use}))
    IN Cat2(Cat2(UpTo(Decl, MaxDecls), Mid), {Use})

\* and/or expressions of n operands, sub-expressions with or without parentheses
RECURSIVE Operands(_)
Operands(n) ==
    IF n = 1
    THEN { <<a>>, Kw("True") }
    ELSE LET Sub(k) == IF k = 1 THEN Operands(1)
                       ELSE Operands(k)
                            \cup { Kw("LParen") \o e \o Kw("RParen") : e \in Operands(k) }
         IN UNION { { l \o Kw(op) \o r : l \in Sub(k), r \in Sub(n - k),
                                        op \in {"Or", "And"} } : k \in 1..(n - 1) }

ExprSources ==
    { <<b, K("Assign")>> \o e : e \in UNION { Operands(n) : n \in 1..MaxOperands } }

\* Assignments: every list of 1 .. MaxTargets targets, c a local, with
\* 1 .. MaxTargets + 1 values
Targets ==
    { <<a>>, <<id_c>>, <<b, K("Dot"), x>>, <<b, K("LSquare"), n1, K("RSquare")>> }

\* the members of seqs, joined by commas
Commas(S, n) ==
    IF n = 1 THEN S ELSE Cat2(Exactly(Cat2(S, {Kw("Comma")}), n - 1), S)

AssignSources ==
    { <<K("Local"), id_c>> \o l \o Kw("Assign") \o r :
        l \in UNION { Commas(Targets, n) : n \in 1..MaxTargets },
        r \in UNION { Commas({<<n1>>}, n) : n \in 1..(MaxTargets + 1) } }

\* Local declarations of 1 .. MaxTargets names with 0 .. MaxTargets + 1 values
LocalSources ==
    { <<K("Local")>> \o l \o r :
        l \in { SubSeq(<<a, K("Comma"), b, K("Comma"), id_c, K("Comma"), x, K("Comma"),
                         y>>, 1, 2 * n - 1) : n \in 1..MaxTargets },
        r \in {<<>>} \cup { Kw("Assign") \o q :
                   q \in UNION { Commas({<<n1>>}, n) : n \in 1..(MaxTargets + 1) } } }

\* Repeat loops whose body declares a or b, after a declaration of a or
\* none, with a or `a == b` as the condition and possibly a use of a after
\* the loop
RepeatScopeSources ==
    LET Body == Decl \cup { <<K("Local"), a, K("Local"), b>>,
                            <<K("Local"), a, K("Local"), a>>,
                            Kw("Do") \o <<K("Local"), a>> \o Kw("End") }
    IN { pre \o Kw("Repeat") \o body \o Kw("Until") \o cond \o post :
           pre \in { <<>>, <<K("Local"), a>> }, body \in Body,
           cond \in { <<a>>, <<a, K("Equal"), b>> }, post \in { <<>>, Use } }

\* Declarations and numeric for loops of a (and b) whose initialisers,
\* start, stop and step name a or b, with an outer local a or none
InitialiserSources ==
       { pre \o <<K("Local")>> \o names \o Kw("Assign") \o vals :
           pre \in { <<>>, <<K("Local"), a>> },
           names \in { <<a>>, <<a, K("Comma"), b>>, <<a, K("Comma"), a>> },
           vals \in { <<a>>, <<b, K("Comma"), a>>, <<a, K("Plus"), b>> } }
  \cup { pre \o Kw("For") \o <<a, K("Assign")>> \o start \o Kw("Comma") \o stop
             \o step \o Kw("Do") \o body \o Kw("End") :
           pre \in { <<>>, <<K("Local"), a>> },
           start \in { <<a>>, <<n1>> }, stop \in { <<a>>, <<b>> },
           step \in { <<>>, <<K("Comma"), a>> }, body \in { <<>>, Use } }

\* Comparisons: chains of one, two and three comparison operators, and
\* chains with a sum or a comparison in parentheses as an operand
ComparisonOps ==
    {"Less", "LessEqual", "Greater", "GreaterEqual", "Equal", "NotEqual"}

ComparisonSources ==
    LET Cmp == { Kw(op) : op \in ComparisonOps }
        Few == { Kw("Less"), Kw("Equal") }
        One == Cat2(Cat2({<<a>>}, Cmp), {<<b>>})
        Two == Cat2(Cat2(One, Cmp), {<<id_c>>})
        Three == Cat2(Cat2(Cat2(Cat2(Cat2(Cat2({<<a>>}, Few), {<<b>>}), Few),
                                {<<id_c>>}), Few), {<<y>>})
        Mixed == { <<a, K("Less"), b, K("Plus"), n1, K("Less"), id_c>>,
                   <<K("LParen"), a, K("Less"), b, K("RParen"), K("Less"), id_c>>,
                   <<a, K("Less"), K("LParen"), b, K("Less"), id_c, K("RParen")>>,
                   <<a, K("Less"), b, K("And"), b, K("Less"), id_c>> }
    IN Cat2({<<x, K("Assign")>>}, One \cup Two \cup Three \cup Mixed)

\* Unary operators and `^`: one operand with up to MaxUnary unary operators,
\* two operands of which one has up to MaxUnary and the other up to one,
\* three operands with up to one each
UnaryOps == { Kw("Minus"), Kw("Not"), Kw("Hash") }

UnaryPowSources ==
    LET Stacked(operand) == Cat2(UpTo(UnaryOps, MaxUnary), {operand})
        Single(operand) == Cat2(UpTo(UnaryOps, 1), {operand})
    IN Cat2({<<x, K("Assign")>>},
            Stacked(<<n2>>)
              \cup Cat2(Cat2(Stacked(<<n2>>), {Kw("Caret")}), Single(<<n3>>))
              \cup Cat2(Cat2(Single(<<n2>>), {Kw("Caret")}), Stacked(<<n3>>))
              \cup Cat2(Cat2(Cat2(Cat2(Single(<<n2>>), {Kw("Caret")}),
                                   Single(<<n3>>)), {Kw("Caret")}), Single(<<n4>>)))

\* Function literals: up to MaxFunctions in a row, each holding up to
\* MaxFunctions literals with empty bodies
FunctionLiterals(B) ==
    { <<b, K("Assign")>> \o FunctionHead \o p \o Kw("End") : p \in B }

FunctionSources ==
    UpTo(FunctionLiterals(UpTo(FunctionLiterals({<<>>}), MaxFunctions)),
         MaxFunctions)

\* Literals: three operands out of two numbers, a hexadecimal spelling of
\* one of them, two strings and a global name
LiteralSources ==
    LET Literal == { <<n1>>, <<n2>>, <<Hex(<<"0", "x", "2">>)>>, <<Str("h")>>,
                     <<Str("x")>>, <<a>> }
    IN Cat2({<<x, K("Assign")>>},
            Cat2(Cat2(Literal, {Kw("Plus")}),
                 Cat2(Cat2(Literal, {Kw("Plus")}), Literal)))

\* Sources at the limits of a unit: U8_MAX + 1 distinct number literals,
\* U8_MAX + 1 distinct strings (the global name x and string literals),
\* U8_MAX + 1 declarations of a local, U8_MAX + 1 function literals,
\* U8_MAX distinct literals followed by an earlier one, U8_MAX + 1 do
\* blocks one inside the other, and an assignment of one value to
\* U8_MAX + 2 fields.  Such a source is given by its beginning, the kind and
\* number of the parts that follow and its end.
Long(head, kind, count, tail) ==
    [stream |-> <<>>, head |-> head, kind |-> kind, count |-> count, tail |-> tail]

\* a lexeme with its spelling given
Lexeme(typ, spelling) == [typ |-> typ, text |-> spelling]

LimitSources ==
    LET assign == Lexeme("Assign", <<"=">>) IN
    { Long(<<x, assign, Num(<<"0">>)>>, "number", U8_MAX, <<>>),
      Long(<<x, assign, Num(<<"0">>)>>, "number", U8_MAX - 1,
           <<Lexeme("Plus", <<"+">>), n2>>),
      Long(<<x, assign, Str("x")>>, "string", U8_MAX, <<>>),
      Long(<<x, assign, Str("x")>>, "string", U8_MAX - 1,
           <<Lexeme("DotDot", <<".", ".">>), Str("x")>>),
      Long(<<>>, "local", U8_MAX + 1, <<>>),
      Long(<<>>, "function", U8_MAX + 1, <<>>),
      Long(<<>>, "do", U8_MAX + 1, <<>>),
      Long(<<t, Lexeme("Dot", <<".">>), x>>, "target", U8_MAX + 1, <<assign, n1>>) }

\* A parenthesized expression or a call where a target stands, first or
\* after a comma, with nothing, `=`, `= 1` or `, b = 1` after it
NonTargetSources ==
    Cat2({ <<K("LParen"), a, K("RParen")>>,
           <<a, K("LParen"), K("RParen")>>,
           <<a, K("Comma"), K("LParen"), b, K("RParen")>>,
           <<a, K("Comma"), b, K("LParen"), K("RParen")>> },
         { <<>>, <<K("Assign")>>, <<K("Assign"), n1>>,
           <<K("Comma"), b, K("Assign"), n1>> })

\* Broken sources: a program of the test suite cut short, and then possibly
\* carried on by tokens that do not fit
Tails ==
    { <<>>, Kw("End"), <<b, b>>, <<K("DotDotDot"), b>>, <<K("RParen"), K("Semi")>> }

BrokenSources ==
    UNION { { SubSeq(p, 1, k) \o tail : k \in 0..Len(p), tail \in Tails }
              : p \in TestSources }

\* a hexadecimal literal, a call with arguments, a method call
OtherSources ==
    { <<x, K("Assign"), Hex(<<"0", "x", "1", "f">>), K("Plus"), Num(<<"1", ".", "5">>)>>,
      <<x, K("LParen"), n1, K("Comma"), n2, K("RParen"), K("Semi")>>,
      <<x, K("Assign"), K("LCurly"), y, K("Assign"), n1, K("Semi"), z, K("Assign"),
        n1, K("RCurly")>>,
      <<x, K("Assign"), K("LCurly"), K("RCurly")>>,
      <<x, K("Colon"), y, K("LParen"), K("RParen")>>,
      <<x, K("Assign"), K("Function"), K("LParen"), y, K("RParen"), K("End")>> }

ShortSources ==
    TestSources \cup ControlSources \cup ScopeSources \cup ExprSources
        \cup AssignSources \cup LocalSources \cup UnaryPowSources
        \cup FunctionSources \cup LiteralSources \cup NonTargetSources
        \cup RepeatScopeSources \cup ComparisonSources \cup InitialiserSources
        \cup BrokenSources \cup OtherSources

\* A short source is given by its token stream.
Short(lexemes) ==
    [stream |-> Tokenize(lexemes), head |-> <<>>, kind |-> "none", count |-> 0,
     tail |-> <<>>]

Sources == { Short(p) : p \in ShortSources } \cup LimitSources

RECURSIVE Decimal(_)
Decimal(k) ==
    LET digit == <<"0", "1", "2", "3", "4", "5", "6", "7", "8", "9">>[(k % 10) + 1]
    IN IF k < 10 THEN <<digit>> ELSE Append(Decimal(k \div 10), digit)

\* The lo-th .. hi-th part of its kind: `+ lo`, `.. "lo"`, `local a`,
\* `b = function() end`, `do`, `end` or `, t.x`
RECURSIVE Parts(_, _, _)
Parts(kind, lo, hi) ==
    IF lo > hi THEN <<>>
    ELSE IF lo = hi
    THEN CASE kind = "number" -> <<Lexeme("Plus", <<"+">>), Num(Decimal(lo))>>
           [] kind = "string" ->
                << Lexeme("DotDot", <<".", ".">>),
                   Lexeme("LiteralString", <<"\"">> \o Decimal(lo) \o <<"\"">>) >>
           [] kind = "local" ->
                <<Lexeme("Local", <<"l", "o", "c", "a", "l">>), a>>
           [] kind = "function" ->
                << b, Lexeme("Assign", <<"=">>),
                   Lexeme("Function", <<"f", "u", "n", "c", "t", "i", "o", "n">>),
                   Lexeme("LParen", <<"(">>), Lexeme("RParen", <<")">>),
                   Lexeme("End", <<"e", "n", "d">>) >>
           [] kind = "do" -> <<Lexeme("Do", <<"d", "o">>)>>
           [] kind = "end" -> <<Lexeme("End", <<"e", "n", "d">>)>>
           [] kind = "target" ->
                <<Lexeme("Comma", <<",">>), t, Lexeme("Dot", <<".">>), x>>
    ELSE LET mid == (lo + hi) \div 2
         IN Parts(kind, lo, mid) \o Parts(kind, mid + 1, hi)

\* The lexemes of a source; every `do` has its `end`
Text(p) ==
    p.head \o Parts(p.kind, 1, p.count) \o p.tail
        \o (IF p.kind = "do" THEN Parts("end", 1, p.count) ELSE <<>>)

\* The token stream of each long source
LongStream == [p \in LimitSources |-> Tokenize(Text(p))]

\* The token sequence the TokenStream yields for the source, EndOfFile last
source ==
    IF program.kind = "none" THEN program.stream ELSE LongStream[program]

---------------------------------------------------------------------------
(* The token stream.  A token is [typ, text, start, len]; text is the      *)
(* sequence of the token's characters.  The lexer is not part of the       *)
(* sources at hand: next() past the end keeps returning EndOfFile.         *)

TokAt(src, p) == src[Min(p, Len(src))]

\* TokenStream::pos: the offset just past the last token handed out
input_pos(src, p) ==
    IF p = 1 THEN 0 ELSE TokAt(src, p - 1).start + TokAt(src, p - 1).len

\* TokenStream::line_and_column: the model's sources are one line long
line_and_column(p) == <<1, p + 1>>

---------------------------------------------------------------------------
(* The parser's fields while one action runs: st is a record of the        *)
(* fields, `failed`/`err` say whether a `?` has returned early, `tok` is   *)
(* the token the last next()/expect() returned and `ret` the value the     *)
(* last helper returned.  Every helper is the identity once st.failed.     *)

Here ==
    [pos |-> pos, chunk |-> chunk, other_chunks |-> other_chunks,
     nest_level |-> nest_level, locals |-> locals, declared |-> declared,
     entered |-> entered, failed |-> FALSE, err |-> None, tok |-> None, ret |-> None]

Fail(st, e) == [st EXCEPT !.failed = TRUE, !.err = e]

\* Parser::error_at
error_at(kind, p) ==
    LET lc == line_and_column(p) IN Error(kind, lc[1], lc[2])

\* Parser::error
error(st, kind) == error_at(kind, input_pos(source, st.pos))

\* Parser::err_unexpected
err_unexpected(token) ==
    error_at(IF token.typ = "EndOfFile" THEN "UnexpectedEof" ELSE "UnexpectedTok",
             token.start)

\* TokenStream::peek_type
peek_type(st) == TokAt(source, st.pos).typ

\* TokenStream::check_type
check_type(st, typ) == peek_type(st) = typ

\* TokenStream::next
next(st) ==
    IF st.failed THEN st
    ELSE [st EXCEPT !.tok = TokAt(source, st.pos),
                    !.pos = Min(st.pos + 1, Len(source) + 1)]

\* TokenStream::try_pop: consumes the token iff it has the type; ret says so
try_pop(st, typ) ==
    IF st.failed THEN st
    ELSE IF check_type(st, typ)
         THEN [next(st) EXCEPT !.ret = Some(TRUE)]
         ELSE [st EXCEPT !.ret = None]

\* Parser::expect
expect(st, expected) ==
    IF st.failed THEN st
    ELSE LET s1 == next(st) IN
         IF s1.tok.typ = expected THEN s1
         ELSE Fail(s1, err_unexpected(s1.tok))

\* Parser::expect_identifier: the name is st.tok.text afterwards
expect_identifier(st) == expect(st, "Identifier")

\* Parser::push
push(st, instr) ==
    IF st.failed THEN st
    ELSE [st EXCEPT !.chunk.code = Append(@, instr)]

\* Parser::add_local
add_local(st, name) ==
    IF st.failed THEN st
    ELSE IF Len(st.locals) = U8_MAX
         THEN Fail(st, error(st, "TooManyLocals"))
         ELSE LET ls == Append(st.locals, <<name, st.nest_level>>) IN
              [st EXCEPT !.locals = ls,
                         !.chunk.num_locals =
                             IF Len(ls) > @ THEN @ + 1 ELSE @,
                         !.declared[Len(st.declared)] = Max(@, Len(ls))]

\* For comparison: the level is lowered before the bindings are dropped
level_down_lowered_first(st) ==
    IF st.failed THEN st
    ELSE [st EXCEPT !.locals = pop_level(@, st.nest_level - 1),
                    !.nest_level = @ - 1,
                    !.entered = SubSeq(@, 1, Len(@) - 1)]

\* Parser::level_down
level_down(st) ==
    IF st.failed THEN st
    ELSE [st EXCEPT !.locals = pop_level(@, st.nest_level),
                    !.nest_level = @ - 1,
                    !.entered = SubSeq(@, 1, Len(@) - 1)]

\* `self.nest_level += 1`
level_up(st) ==
    IF st.failed THEN st
    ELSE [st EXCEPT !.nest_level = @ + 1,
                    !.entered = Append(@, [locals |-> st.locals,
                                           nest_level |-> st.nest_level])]

\* Parser::find_or_add_string: the index is st.ret afterwards
find_or_add_string(st, string) ==
    IF st.failed THEN st
    ELSE LET r == find_or_add(st.chunk.string_literals, string) IN
         IF IsSome(r.ret)
         THEN [st EXCEPT !.chunk.string_literals = r.queue, !.ret = Get(r.ret)]
         ELSE Fail(st, error(st, "TooManyStrings"))

\* Parser::find_or_add_number: the index is st.ret afterwards
find_or_add_number(st, num) ==
    IF st.failed THEN st
    ELSE LET r == find_or_add(st.chunk.number_literals, num) IN
         IF IsSome(r.ret)
         THEN [st EXCEPT !.chunk.number_literals = r.queue, !.ret = Get(r.ret)]
         ELSE Fail(st, error(st, "TooManyNumbers"))

---------------------------------------------------------------------------
(* Literal conversions.  An f64 is represented by ten times its value, so  *)
(* the model's number literals carry at most one fractional digit.         *)

Digit(c) ==
    CASE c = "0" -> 0 [] c = "1" -> 1 [] c = "2" -> 2 [] c = "3" -> 3
      [] c = "4" -> 4 [] c = "5" -> 5 [] c = "6" -> 6 [] c = "7" -> 7
      [] c = "8" -> 8 [] c = "9" -> 9 [] c = "a" -> 10 [] c = "b" -> 11
      [] c = "c" -> 12 [] c = "d" -> 13 [] c = "e" -> 14 [] c = "f" -> 15

\* the value of the digits text[i..j] in the given radix
RECURSIVE from_digits(_, _, _, _)
from_digits(text, i, j, radix) ==
    IF j < i THEN 0
    ELSE from_digits(text, i, j - 1, radix) * radix + Digit(text[j])

\* the index of the first "." of text, Len(text) + 1 if there is none
RECURSIVE dot_index(_, _)
dot_index(text, i) ==
    IF i > Len(text) \/ text[i] = "." THEN i ELSE dot_index(text, i + 1)

\* `text.parse::<f64>().unwrap()`
parse_f64(text) ==
    LET d == dot_index(text, 1) IN
    from_digits(text, 1, d - 1, 10) * 10
        + (IF d < Len(text) THEN Digit(text[d + 1]) ELSE 0)

\* `u128::from_str_radix(&text[2..], 16).unwrap() as f64`
parse_hex(text) == from_digits(text, 3, Len(text), 16) * 10

\* the f64 literal 1.0
ONE == parse_f64(<<"1", ".", "0">>)

\* Parser::get_literal_string_contents: chops off the quotes
get_literal_string_contents(tok) == SubSeq(tok.text, 2, tok.len - 1)

\* Parser::get_text
get_text(tok) == tok.text

---------------------------------------------------------------------------
(* The call stack *)

Top  == stack[Len(stack)]
Rest == SubSeq(stack, 1, Len(stack) - 1)

\* The parser is about to run the stretch of code named pc.
At(pc) ==
    /\ status = "running"
    /\ result.ok
    /\ stack # <<>>
    /\ Top.pc = pc

\* The frames a call of parse_unary puts on the stack.
UnaryFrames == << [pc |-> "parse_unary"] >>

\* parse_multiplication .. parse_or start by calling the next tighter level:
\* the frames of such a call chain, each waiting for its left operand.
MultiplicationFrames ==
    << [pc |-> "parse_multiplication", instr |-> None] >> \o UnaryFrames
AdditionFrames ==
    << [pc |-> "parse_addition", instr |-> None] >> \o MultiplicationFrames
ConcatFrames == << [pc |-> "parse_concat"] >> \o AdditionFrames
ComparisonFrames ==
    << [pc |-> "parse_comparison", instr |-> None] >> \o ConcatFrames
AndFrames ==
    << [pc |-> "parse_and", branch_instr_index |-> None] >> \o ComparisonFrames
OrFrames ==
    << [pc |-> "parse_or", branch_instr_index |-> None] >> \o AndFrames
\* parse_expr is parse_or
ExprFrames == OrFrames

\* parse_explist starts by calling parse_expr
ExplistFrames == << [pc |-> "parse_explist", output |-> 0] >> \o ExprFrames

\* The caller continues as frame `cont` once the frames `callee` have returned.
CallFrames(cont, callee) == Append(Rest, cont) \o callee

\* What a step starts from: the frame that runs, the parser's fields and the
\* value the last call returned
Before ==
    [frame |-> Top, pos |-> pos, chunk |-> chunk, other_chunks |-> other_chunks,
     nest_level |-> nest_level, locals |-> locals, declared |-> declared,
     entered |-> entered, result |-> result]

\* The effects of one action: the parser's fields as st leaves them; if a `?`
\* returned early the function returns the error, else the stack and the
\* returned value are as given.
Commit(st, newstack, newresult) ==
    /\ pos' = st.pos
    /\ chunk' = st.chunk
    /\ other_chunks' = st.other_chunks
    /\ nest_level' = st.nest_level
    /\ locals' = st.locals
    /\ declared' = st.declared
    /\ entered' = st.entered
    /\ prev' = Before
    /\ IF st.failed
       THEN stack' = Rest /\ result' = Err(st.err)
       ELSE stack' = newstack /\ result' = newresult
    /\ UNCHANGED <<program, status>>

\* panic!: the process aborts
Panic ==
    /\ status' = "panicked"
    /\ prev' = Before
    /\ UNCHANGED <<program, pos, chunk, other_chunks, nest_level, locals, stack,
                   result, declared, entered>>

---------------------------------------------------------------------------
(* parse_str, parse_all, parse_chunk *)

\* `?`: a callee returned Err and the caller returns it at once.  Only
\* parse_all keeps the Result of its call in a variable.
Propagate ==
    /\ status = "running"
    /\ ~result.ok
    /\ stack # <<>>
    /\ Top.pc # "parse_all_1"
    /\ stack' = Rest
    /\ prev' = Before
    /\ UNCHANGED <<program, pos, chunk, other_chunks, nest_level, locals, result,
                   status, declared, entered>>

\* parse_all, up to `self.parse_chunk()`
ParseAll ==
    /\ At("parse_all")
    /\ Commit(Here, CallFrames([pc |-> "parse_all_1"], << [pc |-> "parse_chunk"] >>),
              result)

\* parse_chunk, up to `self.parse_statements()`
ParseChunk ==
    /\ At("parse_chunk")
    /\ LET s1 == [Here EXCEPT !.chunk = DefaultChunk,
                              !.other_chunks = Append(@, chunk),
                              !.declared = Append(@, 0)]
       IN Commit(s1, CallFrames([pc |-> "parse_chunk_1"],
                                << [pc |-> "parse_statements"] >>), result)

\* parse_chunk, after `self.parse_statements()?`
ParseChunkEnd ==
    /\ At("parse_chunk_1")
    /\ LET s1 == push(Here, Return)
           c  == s1.chunk
           n  == Len(s1.other_chunks)
           s2 == [s1 EXCEPT !.chunk = s1.other_chunks[n],
                            !.other_chunks = SubSeq(@, 1, n - 1),
                            !.declared = SubSeq(@, 1, Len(@) - 1)]
       IN Commit(s2, Rest, Ok(c))

\* parse_all, after `let c = self.parse_chunk()`
ParseAllEnd ==
    /\ status = "running"
    /\ stack # <<>>
    /\ Top.pc = "parse_all_1"
    /\ LET c  == result
           s1 == next(Here)
       IN /\ pos' = s1.pos
          /\ result' = IF s1.tok.typ = "EndOfFile" THEN c
                       ELSE Err(err_unexpected(s1.tok))
          /\ stack' = Rest
          /\ status' = "returned"
          /\ prev' = Before
          /\ UNCHANGED <<program, chunk, other_chunks, nest_level, locals, declared,
                         entered>>

\* The frames of the call of the statement parser that a token type selects
StatementFrames(typ) ==
    CASE typ \in {"Identifier", "LParen"} ->
             << [pc |-> "parse_assign_or_call"], [pc |-> "parse_prefix_exp"] >>
      [] typ = "If"     -> << [pc |-> "parse_if_arm"] >>
      [] typ = "While"  -> << [pc |-> "parse_while"] >>
      [] typ = "Repeat" -> << [pc |-> "parse_repeat"] >>
      [] typ = "Do"     -> << [pc |-> "parse_do"] >>
      [] typ = "Local"  -> << [pc |-> "parse_locals"] >>
      [] typ = "For"    -> << [pc |-> "parse_for"] >>

\* parse_statements: one turn of its loop
ParseStatements ==
    /\ At("parse_statements")
    /\ LET typ == peek_type(Here) IN
       IF typ \in {"Identifier", "LParen", "If", "While", "Repeat", "Do",
                   "Local", "For"}
       THEN Commit(Here, CallFrames(Top, StatementFrames(typ)), result)
       ELSE IF typ = "Semi"
       THEN Commit(next(Here), stack, result)
       ELSE Commit(Here, Rest, Ok(Unit))

---------------------------------------------------------------------------
(* Expressions *)

\* For comparison: the offset counted from the branch itself
branch_offset_from_branch(len, branch_instr_index) == len - branch_instr_index

\* The offset that makes the branch at branch_instr_index land on the
\* instruction that will be pushed next, code being len instructions long.
branch_offset(len, branch_instr_index) == len - branch_instr_index - 1

\* `self.chunk.code[index] = instr`, index 0-based
patch(st, index, instr) ==
    IF st.failed THEN st ELSE [st EXCEPT !.chunk.code[index + 1] = instr]

\* The branch of a short-circuit operator
keep(operator, o) ==
    IF operator = "Or" THEN BranchTrueKeep(o) ELSE BranchFalseKeep(o)

\* For comparison: the left operand is not popped before the right one
short_circuit_without_pop(operator, callee) ==
    LET bi == Top.branch_instr_index
        s1 == IF IsSome(bi)
              THEN patch(Here, Get(bi),
                         keep(operator, branch_offset(Len(chunk.code), Get(bi))))
              ELSE Here
        s2 == try_pop(s1, operator)
    IN IF IsSome(s2.ret)
       THEN LET branch_instr_index == Len(s2.chunk.code)
                s3 == push(s2, keep(operator, 0))
            IN Commit(s3, CallFrames([Top EXCEPT !.branch_instr_index =
                                                 Some(branch_instr_index)],
                                     callee), result)
       ELSE Commit(s2, Rest, Ok(Unit))

\* parse_or and parse_and: after an operand has been compiled.
\* callee is the frames of the call that compiles the right operand.
short_circuit(operator, callee) ==
    LET bi == Top.branch_instr_index
        s1 == IF IsSome(bi)
              THEN patch(Here, Get(bi),
                         keep(operator, branch_offset(Len(chunk.code), Get(bi))))
              ELSE Here
        s2 == try_pop(s1, operator)
    IN IF IsSome(s2.ret)
       THEN LET branch_instr_index == Len(s2.chunk.code)
                s3 == push(push(s2, keep(operator, 0)), Pop)
            IN Commit(s3, CallFrames([Top EXCEPT !.branch_instr_index =
                                                 Some(branch_instr_index)],
                                     callee), result)
       ELSE Commit(s2, Rest, Ok(Unit))

\* parse_or, after a call of parse_and returned
ParseOr ==
    /\ At("parse_or")
    /\ short_circuit("Or", AndFrames)

\* parse_and, after a call of parse_comparison returned
ParseAnd ==
    /\ At("parse_and")
    /\ short_circuit("And", ComparisonFrames)

\* The instructions of the operator tokens of parse_comparison,
\* parse_addition and parse_multiplication
comparison_instr(typ) ==
    CASE typ = "Less" -> Simple("Less")
      [] typ = "LessEqual" -> Simple("LessEqual")
      [] typ = "Greater" -> Simple("Greater")
      [] typ = "GreaterEqual" -> Simple("GreaterEqual")
      [] typ = "Equal" -> Simple("Equal")
      [] typ = "NotEqual" -> Simple("NotEqual")

addition_instr(typ) ==
    CASE typ = "Plus" -> Simple("Add") [] typ = "Minus" -> Simple("Subtract")

multiplication_instr(typ) ==
    CASE typ = "Star" -> Simple("Multiply")
      [] typ = "Slash" -> Simple("Divide")
      [] typ = "Mod" -> Simple("Mod")

binary_instr(typ) ==
    IF typ \in {"Plus", "Minus"} THEN addition_instr(typ)
    ELSE IF typ \in {"Star", "Slash", "Mod"} THEN multiplication_instr(typ)
    ELSE comparison_instr(typ)

\* parse_comparison, parse_addition, parse_multiplication: after an operand
\* has been compiled.  operators are the level's operator tokens.
binary_level(operators, callee) ==
    LET s1 == IF IsSome(Top.instr) THEN push(Here, Get(Top.instr)) ELSE Here
        typ == peek_type(s1)
    IN IF typ \in operators
       THEN Commit(next(s1),
                   CallFrames([Top EXCEPT !.instr = Some(binary_instr(typ))], callee),
                   result)
       ELSE Commit(s1, Rest, Ok(Unit))

\* For comparison: at most one comparison operator is taken
ParseComparisonOnce ==
    /\ At("parse_comparison")
    /\ IF IsSome(Top.instr)
       THEN Commit(push(Here, Get(Top.instr)), Rest, Ok(Unit))
       ELSE binary_level(ComparisonOps, ConcatFrames)

\* parse_comparison, after a call of parse_concat returned
ParseComparison ==
    /\ At("parse_comparison")
    /\ binary_level(ComparisonOps, ConcatFrames)

\* parse_concat, after `self.parse_addition()?`
ParseConcat ==
    /\ At("parse_concat")
    /\ LET s1 == try_pop(Here, "DotDot") IN
       IF IsSome(s1.ret)
       THEN Commit(s1, CallFrames([pc |-> "parse_concat_1"], ConcatFrames), result)
       ELSE Commit(s1, Rest, Ok(Unit))

\* parse_concat, after the recursive `self.parse_concat()?`
ParseConcatEnd ==
    /\ At("parse_concat_1")
    /\ Commit(push(Here, Simple("Concat")), Rest, Ok(Unit))

\* parse_addition, after a call of parse_multiplication returned
ParseAddition ==
    /\ At("parse_addition")
    /\ binary_level({"Plus", "Minus"}, MultiplicationFrames)

\* parse_multiplication, after a call of parse_unary returned
ParseMultiplication ==
    /\ At("parse_multiplication")
    /\ binary_level({"Star", "Slash", "Mod"}, UnaryFrames)

unary_instr(typ) ==
    CASE typ = "Not" -> Simple("Not")
      [] typ = "Hash" -> Simple("Length")
      [] typ = "Minus" -> Simple("Negate")

\* For comparison: a unary operator that applies to the primary expression
\* alone, `^` taking the result as its left operand
ParseUnaryOfPrimary ==
    /\ At("parse_unary")
    /\ LET typ == peek_type(Here) IN
       IF typ \in {"Not", "Hash", "Minus"}
       THEN Commit(next(Here),
                   CallFrames([pc |-> "parse_pow"],
                              << [pc |-> "parse_unary_1", instr |-> unary_instr(typ)],
                                 [pc |-> "parse_primary"] >>), result)
       ELSE Commit(Here, CallFrames([pc |-> "parse_pow"],
                                    << [pc |-> "parse_primary"] >>), result)

\* parse_unary, up to its call of parse_unary or of parse_pow (which starts
\* by calling parse_primary)
ParseUnary ==
    /\ At("parse_unary")
    /\ LET typ == peek_type(Here) IN
       IF typ \in {"Not", "Hash", "Minus"}
       THEN Commit(next(Here),
                   CallFrames([pc |-> "parse_unary_1", instr |-> unary_instr(typ)],
                              UnaryFrames), result)
       ELSE Commit(Here, CallFrames([pc |-> "parse_pow"],
                                    << [pc |-> "parse_primary"] >>), result)

\* parse_unary, after the recursive `self.parse_unary()?`
ParseUnaryEnd ==
    /\ At("parse_unary_1")
    /\ Commit(push(Here, Top.instr), Rest, Ok(Unit))

\* parse_pow, after `self.parse_primary()?`
ParsePow ==
    /\ At("parse_pow")
    /\ LET s1 == try_pop(Here, "Caret") IN
       IF IsSome(s1.ret)
       THEN Commit(s1, CallFrames([pc |-> "parse_pow_1"], UnaryFrames), result)
       ELSE Commit(s1, Rest, Ok(Unit))

\* parse_pow, after `self.parse_unary()?`
ParsePowEnd ==
    /\ At("parse_pow_1")
    /\ Commit(push(Here, Simple("Pow")), Rest, Ok(Unit))

---------------------------------------------------------------------------
(* Primary and prefix expressions *)

\* Parser::eval_prefix_exp
eval_prefix_exp(st, exp) ==
    CASE exp[1] = "FunctionCall"  -> push(st, Call(exp[2], 1))
      [] exp[1] = "Parenthesized" -> st
      [] exp[1] = "Local"         -> push(st, GetLocal(exp[2]))
      [] exp[1] = "Global"        -> push(st, GetGlobal(exp[2]))
      [] exp[1] = "FieldAccess"   -> push(st, GetField(exp[2]))
      [] exp[1] = "TableIndex"    -> push(st, GetTable)

\* Parser::parse_prefix_identifier: the PrefixExp is st.ret afterwards
parse_prefix_identifier(st, name) ==
    IF st.failed THEN st
    ELSE LET found == find_last_local(st.locals, name) IN
         IF IsSome(found)
         THEN [st EXCEPT !.ret = Local(U8(Get(found)))]
         ELSE LET s1 == find_or_add_string(st, name) IN
              IF s1.failed THEN s1 ELSE [s1 EXCEPT !.ret = Global(s1.ret)]

\* parse_primary, up to `self.parse_prefix_exp()` or `self.parse_expr_base()`
ParsePrimary ==
    /\ At("parse_primary")
    /\ IF peek_type(Here) \in {"Identifier", "LParen"}
       THEN Commit(Here, CallFrames([pc |-> "parse_primary_1"],
                                    << [pc |-> "parse_prefix_exp"] >>), result)
       ELSE Commit(Here, Append(Rest, [pc |-> "parse_expr_base"]), result)

\* parse_primary, after `self.parse_prefix_exp()?`
ParsePrimaryEnd ==
    /\ At("parse_primary_1")
    /\ Commit(eval_prefix_exp(Here, result.val), Rest, Ok(Unit))

\* parse_prefix_exp, up to `self.parse_expr()` or `self.parse_prefix_extension()`
ParsePrefixExp ==
    /\ At("parse_prefix_exp")
    /\ LET s1 == next(Here)
           tok == s1.tok
       IN CASE tok.typ = "Identifier" ->
                 LET s2 == parse_prefix_identifier(s1, get_text(tok)) IN
                 Commit(s2, Append(Rest, [pc |-> "parse_prefix_extension",
                                          base_expr |-> s2.ret]), result)
            [] tok.typ = "LParen" ->
                 Commit(s1, CallFrames([pc |-> "parse_prefix_exp_1"], ExprFrames),
                        result)
            [] OTHER -> Commit(Fail(s1, err_unexpected(tok)), stack, result)

\* parse_prefix_exp, after `self.parse_expr()?`
ParsePrefixExpParen ==
    /\ At("parse_prefix_exp_1")
    /\ Commit(expect(Here, "RParen"),
              Append(Rest, [pc |-> "parse_prefix_extension",
                            base_expr |-> Parenthesized]), result)

\* parse_prefix_extension, up to its next call or its return; its calls of
\* itself are in tail position, so the frame is reused.
ParsePrefixExtension ==
    /\ At("parse_prefix_extension")
    /\ LET typ == peek_type(Here)
           base_expr == Top.base_expr
       IN CASE typ = "Dot" ->
                 LET s1 == next(eval_prefix_exp(Here, base_expr))
                     s2 == expect_identifier(s1)
                     s3 == IF s2.failed THEN s2
                           ELSE find_or_add_string(s2, get_text(s2.tok))
                 IN Commit(s3, Append(Rest, [Top EXCEPT !.base_expr =
                                                        FieldAccess(s3.ret)]),
                           result)
            [] typ = "LSquare" ->
                 Commit(next(eval_prefix_exp(Here, base_expr)),
                        CallFrames([pc |-> "parse_prefix_extension_1"], ExprFrames),
                        result)
            [] typ = "LParen" ->
                 \* parse_call
                 LET s1 == next(eval_prefix_exp(Here, base_expr)) IN
                 IF check_type(s1, "RParen")
                 THEN Commit(expect(s1, "RParen"),
                             Append(Rest, [Top EXCEPT !.base_expr = FunctionCall(0)]),
                             result)
                 ELSE Commit(s1, CallFrames([pc |-> "parse_call_1"], ExplistFrames),
                             result)
            [] typ \in {"Colon", "LiteralString", "LCurly"} -> Panic
            [] OTHER -> Commit(Here, Rest, Ok(base_expr))

\* parse_prefix_extension, after `self.parse_expr()?` of a table index
ParsePrefixExtensionIndex ==
    /\ At("parse_prefix_extension_1")
    /\ Commit(expect(Here, "RSquare"),
              Append(Rest, [pc |-> "parse_prefix_extension",
                            base_expr |-> TableIndex]), result)

\* parse_call, after `self.parse_explist()?`, back into parse_prefix_extension
ParseCallEnd ==
    /\ At("parse_call_1")
    /\ Commit(expect(Here, "RParen"),
              Append(Rest, [pc |-> "parse_prefix_extension",
                            base_expr |-> FunctionCall(result.val)]), result)

\* parse_explist, after a call of parse_expr returned
ParseExplist ==
    /\ At("parse_explist")
    /\ LET output == Top.output + 1
           s1 == try_pop(Here, "Comma")
       IN IF IsSome(s1.ret)
          THEN IF output = U8_MAX
               THEN Commit(Fail(s1, error_at("Complexity", s1.tok.start)), stack,
                           result)
               ELSE Commit(s1, CallFrames([Top EXCEPT !.output = output],
                                          ExprFrames), result)
          ELSE Commit(s1, Rest, Ok(output))

---------------------------------------------------------------------------
(* Base expressions, table constructors, function literals *)

\* parse_expr_base, up to its return or to the call of parse_table or of
\* parse_chunk (through parse_fndef)
ParseExprBase ==
    /\ At("parse_expr_base")
    /\ LET s1 == next(Here)
           tok == s1.tok
       IN CASE tok.typ = "LCurly" ->
                 Commit(s1, Append(Rest, [pc |-> "parse_table"]), result)
            [] tok.typ = "LiteralNumber" ->
                 LET s2 == find_or_add_number(s1, parse_f64(get_text(tok))) IN
                 Commit(push(s2, PushNum(s2.ret)), Rest, Ok(Unit))
            [] tok.typ = "LiteralHexNumber" ->
                 LET s2 == find_or_add_number(s1, parse_hex(get_text(tok))) IN
                 Commit(push(s2, PushNum(s2.ret)), Rest, Ok(Unit))
            [] tok.typ = "LiteralString" ->
                 LET s2 == find_or_add_string(s1, get_literal_string_contents(tok))
                 IN Commit(push(s2, PushString(s2.ret)), Rest, Ok(Unit))
            [] tok.typ = "Function" ->
                 LET s2 == expect(s1, "LParen") IN
                 \* parse_args: `assert_eq!(typ, TokenType::RParen, ..)`
                 IF ~s2.failed /\ peek_type(s2) # "RParen"
                 THEN Panic
                 ELSE LET s3 == expect(s2, "RParen") IN
                      \* parse_fndef
                      IF ~s3.failed /\ Len(s3.chunk.nested) >= U8_MAX
                      THEN Commit(Fail(s3, error(s3, "Complexity")), stack, result)
                      ELSE Commit(level_up(s3),
                                  CallFrames([pc |-> "parse_fndef_1"],
                                             << [pc |-> "parse_chunk"] >>), result)
            [] tok.typ = "Nil"   -> Commit(push(s1, PushNil), Rest, Ok(Unit))
            [] tok.typ = "False" -> Commit(push(s1, PushBool(FALSE)), Rest, Ok(Unit))
            [] tok.typ = "True"  -> Commit(push(s1, PushBool(TRUE)), Rest, Ok(Unit))
            [] tok.typ = "DotDotDot" ->
                 Commit(Fail(s1, error(s1, "UnsupportedFeature")), stack, result)
            [] OTHER -> Commit(Fail(s1, err_unexpected(tok)), stack, result)

\* For comparison: the new unit is put in front of the nested list
ParseFndefEndInFront ==
    /\ At("parse_fndef_1")
    /\ LET new_chunk == result.val
           s1 == level_down(Here)
           s2 == [s1 EXCEPT !.chunk.nested = <<new_chunk>> \o @]
           s3 == push(s2, Closure(U8(Len(s2.chunk.nested)) - 1))
       IN Commit(expect(s3, "End"), Rest, Ok(Unit))

\* parse_fndef, after `self.parse_chunk()?`
ParseFndefEnd ==
    /\ At("parse_fndef_1")
    /\ LET new_chunk == result.val
           s1 == level_down(Here)
           s2 == [s1 EXCEPT !.chunk.nested = Append(@, new_chunk)]
           s3 == push(s2, Closure(U8(Len(s2.chunk.nested)) - 1))
       IN Commit(expect(s3, "End"), Rest, Ok(Unit))

\* parse_table_entry, up to `self.parse_expr()`
parse_table_entry(st, cont) ==
    LET s1 == next(st) IN
    IF s1.tok.typ = "Identifier"
    THEN LET s2 == find_or_add_string(s1, get_text(s1.tok))
             s3 == expect(s2, "Assign")
         IN Commit(s3, Append(Rest, cont)
                         \o << [pc |-> "parse_table_entry_1", index |-> s2.ret] >>
                         \o ExprFrames, result)
    ELSE Panic

\* parse_table, up to its return or to `self.parse_expr()` of its first entry
ParseTable ==
    /\ At("parse_table")
    /\ LET s1 == try_pop(push(Here, NewTable), "RCurly") IN
       IF IsSome(s1.ret)
       THEN Commit(s1, Rest, Ok(Unit))
       ELSE parse_table_entry(s1, [pc |-> "parse_table_1"])

\* parse_table_entry, after `self.parse_expr()?`
ParseTableEntryEnd ==
    /\ At("parse_table_entry_1")
    /\ Commit(push(Here, InitField(Top.index)), Rest, Ok(Unit))

\* parse_table, after a call of parse_table_entry returned
ParseTableLoop ==
    /\ At("parse_table_1")
    /\ IF peek_type(Here) \in {"Comma", "Semi"}
       THEN LET s1 == next(Here) IN
            IF check_type(s1, "RCurly")
            THEN Commit(expect(s1, "RCurly"), Rest, Ok(Unit))
            ELSE parse_table_entry(s1, Top)
       ELSE Commit(expect(Here, "RCurly"), Rest, Ok(Unit))

---------------------------------------------------------------------------
(* Assignments, calls and local declarations *)

\* st after pushing instr n times
push_times(st, instr, n) ==
    IF st.failed THEN st
    ELSE [st EXCEPT !.chunk.code = @ \o [k \in 1..n |-> instr]]

\* For comparison: missing values are made up for, surplus values are kept
reconcile_pad_only(st, diff) ==
    IF diff > 0 THEN push_times(st, PushNil, diff) ELSE st

\* Reconciles the number of values on the stack with the number of targets:
\* diff = targets - values.
reconcile(st, diff) ==
    IF diff > 0 THEN push_times(st, PushNil, diff) ELSE push_times(st, Pop, -diff)

\* For comparison: the offset counted from the right end of the statement
stack_offset_from_right(num_lvals, i) == U8(i)

\* The stack offset of the SetField / SetTable of the i-th (0-based) place of
\* the reversed list: `num_lvals as u8 - i as u8 - 1`.  The subtraction of
\* u8 values overflows when the result is negative.
stack_offset(num_lvals, i) == U8(num_lvals) - U8(i) - 1

\* The instruction that assigns to the i-th place of the reversed list; an
\* overflowed stack offset is the u8 that wrapping arithmetic gives
set_instr(place_exp, num_lvals, i) ==
    CASE place_exp[1] = "Local"       -> SetLocal(place_exp[2])
      [] place_exp[1] = "Global"      -> SetGlobal(place_exp[2])
      [] place_exp[1] = "FieldAccess" ->
             SetField(U8(stack_offset(num_lvals, i)), place_exp[2])
      [] place_exp[1] = "TableIndex"  -> SetTable(U8(stack_offset(num_lvals, i)))

\* The computation of a stack offset overflows for one of the places.
offset_overflows(places) ==
    \E i \in 0..(Len(places) - 1) :
        /\ places[Len(places) - i][1] \in {"FieldAccess", "TableIndex"}
        /\ stack_offset(Len(places), i) < 0

\* `places.reverse(); for (i, place_exp) in places.into_iter().enumerate()`,
\* from the i-th place of the reversed list on
push_sets(st, places, i) ==
    IF st.failed THEN st
    ELSE [st EXCEPT !.chunk.code =
              @ \o [k \in 1..(Len(places) - i) |->
                       set_instr(places[Len(places) - (i + k - 1)], Len(places),
                                 i + k - 1)]]

\* parse_assign_or_call, after `self.parse_prefix_exp()?`
ParseAssignOrCall ==
    /\ At("parse_assign_or_call")
    /\ LET exp == result.val IN
       CASE exp[1] = "Parenthesized" ->
              LET s1 == next(Here) IN
              Commit(Fail(s1, err_unexpected(s1.tok)), stack, result)
         [] exp[1] = "FunctionCall" ->
              Commit(push(Here, Call(exp[2], 0)), Rest, Ok(Unit))
         [] OTHER ->
              Commit(Here, Append(Rest, [pc |-> "parse_assign",
                                         places |-> << exp >>]), result)

\* parse_assign: one turn of the loop over the comma-separated places, and
\* past it up to `self.parse_explist()`
ParseAssign ==
    /\ At("parse_assign")
    /\ LET s1 == try_pop(Here, "Comma") IN
       IF IsSome(s1.ret)
       THEN Commit(s1, CallFrames([pc |-> "parse_assign_1", places |-> Top.places],
                                  << [pc |-> "parse_place_exp"],
                                     [pc |-> "parse_prefix_exp"] >>), result)
       ELSE Commit(expect(s1, "Assign"),
                   CallFrames([pc |-> "parse_assign_2", places |-> Top.places],
                              ExplistFrames), result)

\* parse_place_exp, after `self.parse_prefix_exp()?`
ParsePlaceExp ==
    /\ At("parse_place_exp")
    /\ IF result.val[1] \in {"Parenthesized", "FunctionCall"}
       THEN LET s1 == next(Here) IN
            Commit(Fail(s1, err_unexpected(s1.tok)), stack, result)
       ELSE Commit(Here, Rest, Ok(result.val))

\* parse_assign: `places.push(self.parse_place_exp()?)`
ParseAssignPlace ==
    /\ At("parse_assign_1")
    /\ Commit(Here, Append(Rest, [pc |-> "parse_assign",
                                  places |-> Append(Top.places, result.val)]),
              result)

\* parse_assign, after `self.parse_explist()?`
ParseAssignEnd ==
    /\ At("parse_assign_2")
    /\ LET places == Top.places
           num_lvals == Len(places)
           num_rvals == result.val
           s1 == reconcile(Here, num_lvals - num_rvals)
       IN \* an overflowing subtraction panics in a build with overflow
          \* checks and wraps around in a build without
          IF offset_overflows(places)
          THEN Panic \/ Commit(push_sets(s1, places, 0), Rest, Ok(Unit))
          ELSE Commit(push_sets(s1, places, 0), Rest, Ok(Unit))

\* parse_locals: the loop over the comma-separated names; st.ret counts them
RECURSIVE more_names(_, _)
more_names(st, num_names) ==
    IF st.failed THEN st
    ELSE LET s1 == try_pop(st, "Comma") IN
         IF IsSome(s1.ret)
         THEN LET s2 == expect_identifier(s1)
                  s3 == IF s2.failed THEN s2 ELSE add_local(s2, get_text(s2.tok))
              IN more_names(s3, num_names + 1)
         ELSE [s1 EXCEPT !.ret = num_names]

\* `for i in (start..stop).rev() { self.push(Instr::SetLocal(i)) }`
RECURSIVE push_set_locals(_, _, _)
push_set_locals(st, start, stop) ==
    IF stop <= start THEN st
    ELSE push_set_locals(push(st, SetLocal(stop - 1)), start, stop - 1)

\* parse_locals, up to its return or to `self.parse_explist()`
\* For comparison: the names are not in the scope list while the
\* initialisers are compiled
ParseLocalsUndeclared ==
    /\ At("parse_locals")
    /\ LET s1 == next(Here)
           start == U8(Len(s1.locals))
           s2 == expect_identifier(s1)
           s3 == IF s2.failed THEN s2 ELSE add_local(s2, get_text(s2.tok))
           s4 == more_names(s3, 1)
           num_names == s4.ret
           s5 == try_pop(s4, "Assign")
       IN IF s5.failed \/ IsSome(s5.ret)
          THEN Commit([s5 EXCEPT !.locals = s1.locals],
                      CallFrames([pc |-> "parse_locals_1", start |-> start,
                                  num_names |-> num_names], ExplistFrames),
                      result)
          ELSE Commit(push_set_locals(push_times(s5, PushNil, num_names), start,
                                      start + U8(num_names)), Rest, Ok(Unit))

ParseLocals ==
    /\ At("parse_locals")
    /\ LET s1 == next(Here)
           start == U8(Len(s1.locals))
           s2 == expect_identifier(s1)
           s3 == IF s2.failed THEN s2 ELSE add_local(s2, get_text(s2.tok))
           s4 == more_names(s3, 1)
           num_names == s4.ret
           s5 == try_pop(s4, "Assign")
       IN IF s5.failed \/ IsSome(s5.ret)
          THEN Commit(s5, CallFrames([pc |-> "parse_locals_1", start |-> start,
                                      num_names |-> num_names], ExplistFrames),
                      result)
          ELSE Commit(push_set_locals(push_times(s5, PushNil, num_names), start,
                                      start + U8(num_names)), Rest, Ok(Unit))

\* parse_locals, after `self.parse_explist()?`
ParseLocalsEnd ==
    /\ At("parse_locals_1")
    /\ LET num_rvalues == result.val
           s1 == reconcile(Here, Top.num_names - num_rvalues)
       IN Commit(push_set_locals(s1, Top.start, Top.start + U8(Top.num_names)),
                 Rest, Ok(Unit))

---------------------------------------------------------------------------
(* Control flow *)

\* parse_for and parse_numeric_for, up to the first `self.parse_expr()`
ParseFor ==
    /\ At("parse_for")
    /\ LET s1 == expect_identifier(next(Here))
           name == get_text(s1.tok)
           s2 == expect(level_up(s1), "Assign")
           \* parse_numeric_for
           current_local_slot == U8(Len(s2.locals))
           s3 == add_local(add_local(add_local(s2, <<>>), <<>>), <<>>)
           s4 == IF s3.failed THEN s3 ELSE add_local(s3, name)
       IN Commit(s4, CallFrames([pc |-> "parse_numeric_for_1",
                                 current_local_slot |-> current_local_slot],
                                ExprFrames), result)

\* parse_numeric_for, after the first `self.parse_expr()?`
ParseNumericForStop ==
    /\ At("parse_numeric_for_1")
    /\ Commit(expect(Here, "Comma"),
              CallFrames([Top EXCEPT !.pc = "parse_numeric_for_2"], ExprFrames),
              result)

\* parse_numeric_for from `self.push(Instr::ForPrep(..))` to
\* `self.parse_statements()`
for_prep(st) ==
    LET loop_start_instr_index == Len(st.chunk.code) IN
    Commit(push(st, ForPrep(Top.current_local_slot, -1)),
           CallFrames([pc |-> "parse_numeric_for_3",
                       current_local_slot |-> Top.current_local_slot,
                       loop_start_instr_index |-> loop_start_instr_index],
                      << [pc |-> "parse_statements"] >>), result)

\* parse_numeric_for, after the second `self.parse_expr()?`: the call of
\* parse_numeric_for_step, and on past its return if no step is given
ParseNumericForStep ==
    /\ At("parse_numeric_for_2")
    /\ LET s1 == next(Here)
           next_token == s1.tok
       IN CASE next_token.typ = "Comma" ->
                 Commit(s1, CallFrames([Top EXCEPT !.pc = "parse_numeric_for_step_1"],
                                       ExprFrames), result)
            [] next_token.typ = "Do" ->
                 LET s2 == find_or_add_number(s1, ONE) IN
                 for_prep(push(s2, PushNum(s2.ret)))
            [] OTHER -> Commit(Fail(s1, err_unexpected(next_token)), stack, result)

\* parse_numeric_for_step, after `self.parse_expr()?`, and parse_numeric_for
\* on past its return
ParseNumericForStepEnd ==
    /\ At("parse_numeric_for_step_1")
    /\ for_prep(expect(Here, "Do"))

\* For comparison: the length of the body without its ForPrep
body_length_without_prep(len, loop_start_instr_index) ==
    len - loop_start_instr_index - 1

\* The length the loop body is given in ForPrep and (negated) in ForLoop
body_length(len, loop_start_instr_index) == len - loop_start_instr_index

\* parse_numeric_for, after `self.parse_statements()?`, and parse_for after
\* `self.parse_numeric_for(&name)?`
ParseNumericForEnd ==
    /\ At("parse_numeric_for_3")
    /\ LET s1 == expect(Here, "End")
           len == body_length(Len(s1.chunk.code), Top.loop_start_instr_index)
           s2 == push(s1, ForLoop(Top.current_local_slot, -len))
           s3 == patch(s2, Top.loop_start_instr_index,
                       ForPrep(Top.current_local_slot, len))
       IN Commit(level_down(s3), Rest, Ok(Unit))

\* parse_do, up to `self.parse_statements()`
ParseDo ==
    /\ At("parse_do")
    /\ Commit(level_up(next(Here)),
              CallFrames([pc |-> "parse_do_1"], << [pc |-> "parse_statements"] >>),
              result)

\* parse_do, after `self.parse_statements()?`
ParseDoEnd ==
    /\ At("parse_do_1")
    /\ Commit(level_down(expect(Here, "End")), Rest, Ok(Unit))

\* parse_repeat, up to `self.parse_statements()`
ParseRepeat ==
    /\ At("parse_repeat")
    /\ LET s1 == level_up(next(Here))
           body_start == Len(s1.chunk.code)
       IN Commit(s1, CallFrames([pc |-> "parse_repeat_1", body_start |-> body_start],
                                << [pc |-> "parse_statements"] >>), result)

\* For comparison: the scope of the body ends at `until`
ParseRepeatUntilClosed ==
    /\ At("parse_repeat_1")
    /\ Commit(level_up(level_down(expect(Here, "Until"))),
              CallFrames([Top EXCEPT !.pc = "parse_repeat_2"], ExprFrames), result)

\* parse_repeat, after `self.parse_statements()?`
ParseRepeatUntil ==
    /\ At("parse_repeat_1")
    /\ Commit(expect(Here, "Until"),
              CallFrames([Top EXCEPT !.pc = "parse_repeat_2"], ExprFrames), result)

\* For comparison: the offset counted from the branch itself
repeat_offset_from_branch(body_start, expr_end) == body_start - expr_end

\* The offset of the BranchFalse that closes a repeat loop
repeat_offset(body_start, expr_end) == body_start - (expr_end + 1)

\* parse_repeat, after `self.parse_expr()?`
ParseRepeatEnd ==
    /\ At("parse_repeat_2")
    /\ LET expr_end == Len(chunk.code)
           s1 == push(Here, BranchFalse(repeat_offset(Top.body_start, expr_end)))
       IN Commit(level_down(s1), Rest, Ok(Unit))

\* parse_while, up to `self.parse_expr()`
ParseWhile ==
    /\ At("parse_while")
    /\ LET s1 == level_up(next(Here))
           condition_start == Len(s1.chunk.code)
       IN Commit(s1, CallFrames([pc |-> "parse_while_1",
                                 condition_start |-> condition_start], ExprFrames),
                 result)

\* parse_while, after `self.parse_expr()?`: the code so far is set aside
ParseWhileDo ==
    /\ At("parse_while_1")
    /\ LET s1 == expect(Here, "Do")
           old_output == s1.chunk.code
           s2 == IF s1.failed THEN s1 ELSE [s1 EXCEPT !.chunk.code = <<>>]
       IN Commit(s2, CallFrames([pc |-> "parse_while_2",
                                 condition_start |-> Top.condition_start,
                                 old_output |-> old_output],
                                << [pc |-> "parse_statements"] >>), result)

\* For comparison: the offset counted from the last instruction of the
\* condition
while_branch_offset_from_condition(body_len) == body_len + 2

\* The offset of the BranchFalse in front of a while body of body_len
\* instructions
while_branch_offset(body_len) == body_len + 1

\* For comparison: the offset counted from the Jump itself
while_jump_offset_from_jump(condition_start, len) == condition_start - len

\* The offset of the Jump that closes a while loop, pushed at index len
while_jump_offset(condition_start, len) == condition_start - (len + 1)

\* parse_while, after `self.parse_statements()?`
ParseWhileEnd ==
    /\ At("parse_while_2")
    /\ LET old_output == Append(Top.old_output,
                                BranchFalse(while_branch_offset(Len(chunk.code))))
           s1 == [Here EXCEPT !.chunk.code = old_output \o chunk.code]
           s2 == expect(s1, "End")
           s3 == push(s2, Jump(while_jump_offset(Top.condition_start,
                                                 Len(s2.chunk.code))))
       IN Commit(level_down(s3), Rest, Ok(Unit))

\* parse_if_arm, up to `self.parse_expr()` (parse_if only calls parse_if_arm)
ParseIfArm ==
    /\ At("parse_if_arm")
    /\ Commit(next(Here), CallFrames([pc |-> "parse_if_arm_1"], ExprFrames), result)

\* parse_if_arm, after `self.parse_expr()?`
ParseIfArmThen ==
    /\ At("parse_if_arm_1")
    /\ LET s1 == level_up(expect(Here, "Then"))
           branch_instr_index == Len(s1.chunk.code)
       IN Commit(push(s1, BranchFalse(0)),
                 CallFrames([pc |-> "parse_if_arm_2",
                             branch_instr_index |-> branch_instr_index],
                            << [pc |-> "parse_statements"] >>), result)

\* For comparison: the end of the arm's body, whether a Jump follows or not
if_branch_target_at_body_end(branch_target, len) == branch_target

\* The index the BranchFalse of an arm is made to land on: branch_target is
\* the length of the code after the arm's body, len the length after
\* close_if_arm.
if_branch_target(branch_target, len) ==
    IF len > branch_target THEN branch_target + 1 ELSE branch_target

\* parse_if_arm, after `self.close_if_arm()?`
finish_if_arm(st, branch_instr_index, branch_target) ==
    IF st.failed THEN st
    ELSE LET target == if_branch_target(branch_target, Len(st.chunk.code))
             offset == target - branch_instr_index - 1
         IN patch(st, branch_instr_index, BranchFalse(offset))

\* parse_if_arm, after `self.parse_statements()?`: the call of close_if_arm,
\* which either calls parse_else_or_elseif or expects `end` and returns, and
\* then parse_if_arm runs to its end
ParseIfArmClose ==
    /\ At("parse_if_arm_2")
    /\ LET branch_target == Len(chunk.code)
           s1 == level_down(Here)
           typ == peek_type(s1)
           cont == [pc |-> "parse_if_arm_3",
                    branch_instr_index |-> Top.branch_instr_index,
                    branch_target |-> branch_target]
           \* parse_else_or_elseif
           jump_instr_index == Len(s1.chunk.code)
           s2 == push(s1, Jump(0))
           jump == [pc |-> "parse_else_or_elseif_1",
                    jump_instr_index |-> jump_instr_index]
       IN CASE typ = "ElseIf" ->
                 Commit(s2, CallFrames(cont, << jump, [pc |-> "parse_if_arm"] >>),
                        result)
            [] typ = "Else" ->
                 \* parse_else
                 Commit(next(level_up(s2)),
                        CallFrames(cont, << jump, [pc |-> "parse_else_1"],
                                            [pc |-> "parse_statements"] >>), result)
            [] OTHER ->
                 Commit(finish_if_arm(expect(s1, "End"), Top.branch_instr_index,
                                      branch_target), Rest, Ok(Unit))

\* parse_else, after `self.parse_statements()?`
ParseElseEnd ==
    /\ At("parse_else_1")
    /\ Commit(level_down(expect(Here, "End")), Rest, Ok(Unit))

\* For comparison: the offset counted from the Jump itself
jump_len_from_jump(new_len, jump_instr_index) == new_len - jump_instr_index

\* The offset of the Jump that ends an arm, patched when the code is new_len
\* instructions long
jump_len(new_len, jump_instr_index) == new_len - jump_instr_index - 1

\* parse_else_or_elseif, after `self.parse_if_arm()?` or `self.parse_else()?`
ParseElseOrElseifEnd ==
    /\ At("parse_else_or_elseif_1")
    /\ LET new_len == Len(chunk.code) IN
       Commit(patch(Here, Top.jump_instr_index,
                    Jump(jump_len(new_len, Top.jump_instr_index))), Rest, Ok(Unit))

\* parse_if_arm, after `self.close_if_arm()?` when an arm followed
ParseIfArmEnd ==
    /\ At("parse_if_arm_3")
    /\ Commit(finish_if_arm(Here, Top.branch_instr_index, Top.branch_target),
              Rest, Ok(Unit))

---------------------------------------------------------------------------
(* The state machine *)

\* parse_str: the Parser as constructed, about to call parse_all
Init ==
    /\ program \in Sources
    /\ pos = 1
    /\ chunk = DefaultChunk
    /\ other_chunks = <<>>
    /\ nest_level = 0
    /\ locals = <<>>
    /\ stack = << [pc |-> "parse_all"] >>
    /\ result = Ok(Unit)
    /\ status = "running"
    /\ declared = <<>>
    /\ entered = <<>>
    /\ prev = [frame |-> [pc |-> "parse_str"], pos |-> pos, chunk |-> chunk,
               other_chunks |-> other_chunks, nest_level |-> nest_level,
               locals |-> locals, declared |-> declared, entered |-> entered,
               result |-> result]

Next ==
    \/ Propagate
    \/ ParseAll \/ ParseChunk \/ ParseChunkEnd \/ ParseAllEnd
    \/ ParseStatements
    \/ ParseOr \/ ParseAnd \/ ParseComparison
    \/ ParseConcat \/ ParseConcatEnd
    \/ ParseAddition \/ ParseMultiplication
    \/ ParseUnary \/ ParseUnaryEnd \/ ParsePow \/ ParsePowEnd
    \/ ParsePrimary \/ ParsePrimaryEnd
    \/ ParsePrefixExp \/ ParsePrefixExpParen
    \/ ParsePrefixExtension \/ ParsePrefixExtensionIndex \/ ParseCallEnd
    \/ ParseExplist
    \/ ParseExprBase \/ ParseFndefEnd
    \/ ParseTable \/ ParseTableEntryEnd \/ ParseTableLoop
    \/ ParseAssignOrCall \/ ParseAssign \/ ParsePlaceExp \/ ParseAssignPlace
    \/ ParseAssignEnd
    \/ ParseLocals \/ ParseLocalsEnd
    \/ ParseFor \/ ParseNumericForStop \/ ParseNumericForStep
    \/ ParseNumericForStepEnd \/ ParseNumericForEnd
    \/ ParseDo \/ ParseDoEnd
    \/ ParseRepeat \/ ParseRepeatUntil \/ ParseRepeatEnd
    \/ ParseWhile \/ ParseWhileDo \/ ParseWhileEnd
    \/ ParseIfArm \/ ParseIfArmThen \/ ParseIfArmClose \/ ParseElseEnd
    \/ ParseElseOrElseifEnd \/ ParseIfArmEnd

Spec == Init /\ [][Next]_vars


---------------------------------------------------------------------------
(* Properties.  `prev` holds what the last step started from, so that a    *)
(* property of one step of the compiler is a property of the state the     *)
(* step leaves.                                                            *)

\* The last step ran the stretch of code named pc.
Ran(pc) == prev.result.ok /\ prev.frame.pc = pc

\* The last step ran the stretch pc and neither failed nor panicked.
Done(pc) == Ran(pc) /\ result.ok /\ status # "panicked"

\* The token the last step began at
FirstToken == TokAt(source, prev.pos)

\* The instruction at 0-based index k of code
InstrAt(code, k) == code[k + 1]

\* code2 is code1 with the instruction at 0-based index k replaced
PatchedAt(code1, code2, k) ==
    /\ Len(code2) = Len(code1)
    /\ \A m \in 1..Len(code1) : m # k + 1 => code2[m] = code1[m]

(* C1 as stated: once a parsing operation has returned an error, that error
   is what every later step leaves as the returned value, up to and
   including the return of parse_str: the caller gets the first failure,
   same kind and same position. *)
C1_FirstFailureReturned == ~prev.result.ok => result = prev.result

(* C1: as stated, the property fails.  parse_all keeps the Err of
   parse_chunk, reads one more token and, if that token is not EndOfFile,
   returns UnexpectedTok at that later token instead. *)
C1_LaterErrorReturned ==
    /\ status = "returned"
    /\ ~prev.result.ok
    /\ ~result.ok
    /\ result.err # prev.result.err
    /\ pos > prev.pos

---------------------------------------------------------------------------

\* The 1-based positions in the scope list ls of the bindings named name
Bindings(ls, name) == {k \in 1..Len(ls) : ls[k][1] = name}

\* The greatest member of a non-empty set of numbers
Greatest(S) == CHOOSE k \in S : \A m \in S : m <= k

\* The last step resolved an identifier as the head of a prefix expression.
Resolved == Done("parse_prefix_exp") /\ FirstToken.typ = "Identifier"

(* C2: an identifier resolves to the slot of the last binding of its name
   in the scope list, that is the most recently declared one that is still
   active; a name with no active binding resolves to a global whose operand
   is the index of the name in the string pool.  The scope list only grows
   and shrinks at its end, so a binding keeps its slot for as long as it is
   active, shadowed or not, and is found again at that slot once the
   shadowing scope has exited. *)
C2_NameResolution ==
    /\ LET n == Min(Len(locals), Len(prev.locals))
       IN SubSeq(locals, 1, n) = SubSeq(prev.locals, 1, n)
    /\ Resolved =>
         LET name == get_text(FirstToken)
             found == Bindings(locals, name)
             base_expr == Top.base_expr
         IN /\ locals = prev.locals
            /\ IF found # {}
               THEN base_expr = Local(Greatest(found) - 1)
               ELSE /\ base_expr[1] = "Global"
                    /\ InstrAt(chunk.string_literals, base_expr[2]) = name

\* A name declared twice is resolved at slot 0, the outer binding, after
\* the inner binding, used at slot 1, has gone out of scope.
C2_OuterSlotAgain ==
    /\ Resolved
    /\ Top.base_expr = Local(0)
    /\ Len(locals) = 1
    /\ chunk.num_locals = 2
    /\ \E k \in 1..Len(chunk.code) : chunk.code[k] = GetLocal(1)
    /\ \E p, q \in 1..prev.pos :
           /\ p + 1 < q
           /\ source[p].typ = "Local" /\ source[q].typ = "Local"
           /\ get_text(source[p + 1]) = get_text(FirstToken)
           /\ get_text(source[q + 1]) = get_text(FirstToken)

\* An inner binding shadows an outer one of the same name.
C2_Shadowed ==
    /\ Resolved
    /\ Cardinality(Bindings(locals, get_text(FirstToken))) = 2
    /\ Top.base_expr = Local(Len(locals) - 1)

---------------------------------------------------------------------------

(* C3 as stated: when a unit is finished (parse_chunk returns it), its
   num_locals is one plus the highest slot index of any binding declared
   while the unit was compiled. *)
C3_HighWaterMark ==
    Done("parse_chunk_1") =>
        result.val.num_locals = prev.declared[Len(prev.declared)]

(* C3: as stated, the property fails for a function body compiled while
   locals of the enclosing unit are active: the body's bindings take the
   slots after them, but num_locals of the new unit counts up from zero by
   one per declaration. *)
C3_SlotBeyondCount ==
    /\ Done("parse_chunk_1")
    /\ result.val.num_locals < prev.declared[Len(prev.declared)]
    /\ \E k \in 1..Len(result.val.code) :
           /\ Op(result.val.code[k]) = "SetLocal"
           /\ result.val.code[k][2] >= result.val.num_locals

---------------------------------------------------------------------------

\* The operand of a jump or branch: its offset
Offset(instr) == instr[2]

\* The 0-based index the jump or branch at 0-based index k of code lands on
Lands(code, k) == Target(k, Offset(InstrAt(code, k)))

(* C4: in an if chain the BranchFalse of an arm that is followed by another
   arm lands just past the Jump that follows the arm's body, which is where
   the next arm's condition or the else body begins; the BranchFalse of the
   final arm lands on the first instruction after its body, the end of the
   chain; and the Jump of every non-final arm lands on the end of the code
   when the rest of the chain is compiled.  The steps that close the chain
   patch instructions and add none, so that end is the end of the chain. *)
C4_IfChainTargets ==
    /\ Done("parse_if_arm_2") =>
         LET branch_instr_index == prev.frame.branch_instr_index
             body_end == Len(prev.chunk.code)
         IN IF FirstToken.typ \in {"ElseIf", "Else"}
            THEN /\ chunk.code = Append(prev.chunk.code, Jump(0))
                 /\ \E k \in 1..(Len(stack) - 1) :
                        /\ stack[k] = [pc |-> "parse_if_arm_3",
                                       branch_instr_index |-> branch_instr_index,
                                       branch_target |-> body_end]
                        /\ stack[k + 1] = [pc |-> "parse_else_or_elseif_1",
                                           jump_instr_index |-> body_end]
            ELSE /\ PatchedAt(prev.chunk.code, chunk.code, branch_instr_index)
                 /\ Op(InstrAt(chunk.code, branch_instr_index)) = "BranchFalse"
                 /\ Lands(chunk.code, branch_instr_index) = body_end
                 /\ body_end = Len(chunk.code)
    /\ Done("parse_if_arm_3") =>
         LET branch_instr_index == prev.frame.branch_instr_index
             jump_instr_index == prev.frame.branch_target
         IN /\ PatchedAt(prev.chunk.code, chunk.code, branch_instr_index)
            /\ Op(InstrAt(chunk.code, branch_instr_index)) = "BranchFalse"
            /\ Op(InstrAt(chunk.code, jump_instr_index)) = "Jump"
            /\ Lands(chunk.code, branch_instr_index) = jump_instr_index + 1
            /\ Lands(chunk.code, jump_instr_index) = Len(chunk.code)
    /\ Done("parse_else_or_elseif_1") =>
         LET jump_instr_index == prev.frame.jump_instr_index
         IN /\ PatchedAt(prev.chunk.code, chunk.code, jump_instr_index)
            /\ Op(InstrAt(chunk.code, jump_instr_index)) = "Jump"
            /\ Lands(chunk.code, jump_instr_index) = Len(chunk.code)

\* An arm followed by an elseif is closed inside the body of a while loop,
\* with code after its Jump.
C4_ArmClosedInLoop ==
    /\ Done("parse_if_arm_3")
    /\ Len(chunk.code) > prev.frame.branch_target + 1
    /\ \E k \in 1..Len(stack) : stack[k].pc = "parse_while_2"
    /\ \E k \in 1..Len(stack) : stack[k].pc = "parse_else_or_elseif_1"

---------------------------------------------------------------------------

(* C5: a while loop is compiled to the code before it and its condition,
   one BranchFalse, the body, one Jump, in this order; the BranchFalse lands
   just past the Jump and the Jump lands on the first instruction of the
   condition.  The condition starts where the code ended when the loop was
   entered and is not empty. *)
C5_WhileLayout ==
    /\ Done("parse_while") =>
         /\ chunk.code = prev.chunk.code
         /\ stack[Len(stack) - Len(ExprFrames)] =
                [pc |-> "parse_while_1", condition_start |-> Len(chunk.code)]
    /\ Done("parse_while_1") =>
         /\ chunk.code = <<>>
         /\ prev.frame.condition_start < Len(prev.chunk.code)
         /\ stack[Len(stack) - 1] =
                [pc |-> "parse_while_2",
                 condition_start |-> prev.frame.condition_start,
                 old_output |-> prev.chunk.code]
    /\ Done("parse_while_2") =>
         LET old_output == prev.frame.old_output
             body == prev.chunk.code
             branch_index == Len(old_output)
             jump_index == branch_index + 1 + Len(body)
         IN /\ Len(chunk.code) = jump_index + 1
            /\ SubSeq(chunk.code, 1, branch_index) = old_output
            /\ Op(InstrAt(chunk.code, branch_index)) = "BranchFalse"
            /\ SubSeq(chunk.code, branch_index + 2, jump_index) = body
            /\ Op(InstrAt(chunk.code, jump_index)) = "Jump"
            /\ Lands(chunk.code, branch_index) = jump_index + 1
            /\ Lands(chunk.code, jump_index) = prev.frame.condition_start
            /\ prev.frame.condition_start < branch_index

\* A while loop with a body is finished inside the body of another while
\* loop.
C5_WhileInWhile ==
    /\ Done("parse_while_2")
    /\ prev.chunk.code # <<>>
    /\ \E k \in 1..Len(stack) : stack[k].pc = "parse_while_2"

---------------------------------------------------------------------------

(* C6: a repeat loop emits nothing before its body and nothing between the
   body and the condition; after the condition it emits exactly one
   BranchFalse, which lands on the first instruction of the body. *)
C6_RepeatLayout ==
    /\ Done("parse_repeat") =>
         /\ chunk.code = prev.chunk.code
         /\ stack[Len(stack) - 1] =
                [pc |-> "parse_repeat_1", body_start |-> Len(chunk.code)]
    /\ Done("parse_repeat_1") => chunk.code = prev.chunk.code
    /\ Done("parse_repeat_2") =>
         LET branch_index == Len(prev.chunk.code)
         IN /\ Len(chunk.code) = branch_index + 1
            /\ SubSeq(chunk.code, 1, branch_index) = prev.chunk.code
            /\ Op(InstrAt(chunk.code, branch_index)) = "BranchFalse"
            /\ Lands(chunk.code, branch_index) = prev.frame.body_start
            /\ prev.frame.body_start < branch_index

\* A repeat loop with a body is finished after other code of its unit.
C6_RepeatAfterCode ==
    /\ Done("parse_repeat_2")
    /\ prev.frame.body_start > 0
    /\ Len(prev.chunk.code) > prev.frame.body_start + 2

---------------------------------------------------------------------------

\* The unit c and the units nested in it
RECURSIVE Units(_)
Units(unit) ==
    {unit} \cup UNION { Units(unit.nested[k]) : k \in 1..Len(unit.nested) }

(* C7: when a numeric for loop is finished, its ForPrep carries +L and its
   ForLoop -L for one L > 0, both with the loop's base slot; the ForPrep
   lands on the first instruction after the ForLoop and the ForLoop on the
   first instruction after the ForPrep, where the body begins.  No ForPrep
   of a unit that parse_str returns carries the placeholder -1. *)
C7_ForOffsets ==
    /\ Done("parse_numeric_for_3") =>
         LET prep_index == prev.frame.loop_start_instr_index
             loop_index == Len(prev.chunk.code)
             base == prev.frame.current_local_slot
             prep == InstrAt(chunk.code, prep_index)
             loop == InstrAt(chunk.code, loop_index)
         IN /\ Len(chunk.code) = loop_index + 1
            /\ PatchedAt(prev.chunk.code, SubSeq(chunk.code, 1, loop_index),
                         prep_index)
            /\ InstrAt(prev.chunk.code, prep_index) = ForPrep(base, -1)
            /\ Op(prep) = "ForPrep" /\ prep[2] = base
            /\ Op(loop) = "ForLoop" /\ loop[2] = base
            /\ prep[3] > 0
            /\ loop[3] = -prep[3]
            /\ Target(prep_index, prep[3]) = loop_index + 1
            /\ Target(loop_index, loop[3]) = prep_index + 1
    /\ (status = "returned" /\ result.ok) =>
         \A unit \in Units(result.val) :
             \A k \in 1..Len(unit.code) :
                 Op(unit.code[k]) = "ForPrep" => unit.code[k][3] # -1

\* A for loop with a body is finished inside another for loop.
C7_ForInFor ==
    /\ Done("parse_numeric_for_3")
    /\ Len(prev.chunk.code) > prev.frame.loop_start_instr_index + 1
    /\ \E k \in 1..Len(stack) : stack[k].pc = "parse_numeric_for_3"

---------------------------------------------------------------------------

\* The scope-list entry of a hidden slot of a for loop at level lvl
Hidden(lvl) == << <<>>, lvl >>

(* C8: a numeric for loop appends four bindings to the scope list, at slots
   base .. base + 3: three without a name and then the loop variable, which
   resolves to base + 3 when the body begins; no identifier of the source
   resolves to a slot without a name; when the step is omitted a PushNum of
   the literal 1.0 is emitted in front of the ForPrep; and when the loop is
   finished the scope list is what it was before the loop. *)
C8_ForSlots ==
    /\ Done("parse_for") =>
         LET base == Len(prev.locals)
             name == get_text(TokAt(source, prev.pos + 1))
         IN /\ nest_level = prev.nest_level + 1
            /\ locals = prev.locals \o << Hidden(nest_level), Hidden(nest_level),
                                          Hidden(nest_level), <<name, nest_level>> >>
            /\ find_last_local(locals, name) = Some(base + 3)
            /\ stack[Len(stack) - Len(ExprFrames)] =
                   [pc |-> "parse_numeric_for_1", current_local_slot |-> base]
            /\ \A p \in 1..Len(source) :
                   source[p].typ = "Identifier" =>
                       find_last_local(locals, get_text(source[p]))
                           \notin {Some(base), Some(base + 1), Some(base + 2)}
    /\ (Resolved /\ Top.base_expr[1] = "Local") =>
           InstrAt(locals, Top.base_expr[2])[1] # <<>>
    /\ (Done("parse_numeric_for_2") /\ FirstToken.typ = "Do") =>
         LET push_index == Len(prev.chunk.code)
             pushed == InstrAt(chunk.code, push_index)
         IN /\ Len(chunk.code) = push_index + 2
            /\ Op(pushed) = "PushNum"
            /\ InstrAt(chunk.number_literals, pushed[2]) = ONE
            /\ InstrAt(chunk.code, push_index + 1) =
                   ForPrep(prev.frame.current_local_slot, -1)
    /\ Done("parse_numeric_for_3") =>
         /\ Len(prev.locals) >= prev.frame.current_local_slot + 4
         /\ locals = SubSeq(prev.locals, 1, prev.frame.current_local_slot)
         /\ nest_level = prev.nest_level - 1

\* A for loop whose base slot is not 0 and whose body declared a local is
\* finished.
C8_ForReleased ==
    /\ Done("parse_numeric_for_3")
    /\ prev.frame.current_local_slot > 0
    /\ Len(prev.locals) > prev.frame.current_local_slot + 4

---------------------------------------------------------------------------

\* The instruction of the operator of a short-circuit level
Keep(pc) == IF pc = "parse_or" THEN "BranchTrueKeep" ELSE "BranchFalseKeep"

\* The operator token of a short-circuit level
Operator(pc) == IF pc = "parse_or" THEN "Or" ELSE "And"

\* The frames of the call that compiles an operand of a short-circuit level
OperandFrames(pc) == IF pc = "parse_or" THEN AndFrames ELSE ComparisonFrames

(* C9: when parse_or / parse_and has compiled an operand, the code ending
   at operand_end: if the operand is a right operand, the operator's branch
   (BranchTrueKeep for or, BranchFalseKeep for and) stands where the left
   operand ended, a Pop follows it, the right operand's code follows the Pop
   and the branch lands on operand_end, the first instruction after the
   right operand; if the operator follows the operand, the branch with
   offset 0 and a Pop are emitted at operand_end and nothing else; if not,
   nothing is emitted. *)
C9_ShortCircuit ==
    \A pc \in {"parse_or", "parse_and"} :
        Done(pc) =>
          LET operand_end == Len(prev.chunk.code)
              left == prev.frame.branch_instr_index
          IN /\ IsSome(left) =>
                  /\ Op(InstrAt(chunk.code, Get(left))) = Keep(pc)
                  /\ InstrAt(chunk.code, Get(left) + 1) = Pop
                  /\ Lands(chunk.code, Get(left)) = operand_end
                  /\ Get(left) > 0
                  /\ Get(left) + 2 < operand_end
                  /\ PatchedAt(prev.chunk.code, SubSeq(chunk.code, 1, operand_end),
                               Get(left))
             /\ ~IsSome(left) =>
                  SubSeq(chunk.code, 1, operand_end) = prev.chunk.code
             /\ IF FirstToken.typ = Operator(pc)
                THEN /\ Len(chunk.code) = operand_end + 2
                     /\ InstrAt(chunk.code, operand_end) = <<Keep(pc), 0>>
                     /\ InstrAt(chunk.code, operand_end + 1) = Pop
                     /\ stack[Len(stack) - Len(OperandFrames(pc))] =
                            [pc |-> pc, branch_instr_index |-> Some(operand_end)]
                ELSE Len(chunk.code) = operand_end

\* The branch of an `or` is patched whose right operand holds the branch of
\* an `and`.
C9_AndInsideOr ==
    /\ Done("parse_or")
    /\ IsSome(prev.frame.branch_instr_index)
    /\ \E k \in (Get(prev.frame.branch_instr_index) + 2)..Len(prev.chunk.code) :
           Op(chunk.code[k]) = "BranchFalseKeep"

---------------------------------------------------------------------------

(* C10: when an assignment to n targets is finished, the code ends with the
   reconciliation of the values (n - r PushNil if r < n values were given,
   r - n Pop if more) and then n set instructions, that of the rightmost
   target first.  The set instruction of the k-th target from the left is
   SetLocal / SetGlobal with the target's slot / string index, or SetField /
   SetTable whose stack offset is k - 1: the number of targets to its left,
   whose values are still on the stack when it runs. *)
C10_AssignOrder ==
    Done("parse_assign_2") =>
      LET places == prev.frame.places
          num_lvals == Len(places)
          num_rvals == prev.result.val
          fill == IF num_lvals > num_rvals THEN num_lvals - num_rvals
                  ELSE num_rvals - num_lvals
          sets_start == Len(prev.chunk.code) + fill
      IN /\ Len(chunk.code) = sets_start + num_lvals
         /\ SubSeq(chunk.code, 1, Len(prev.chunk.code)) = prev.chunk.code
         /\ \A k \in 1..fill :
                InstrAt(chunk.code, Len(prev.chunk.code) + k - 1) =
                    IF num_lvals > num_rvals THEN PushNil ELSE Pop
         /\ \A k \in 1..num_lvals :
                LET set == InstrAt(chunk.code, sets_start + num_lvals - k)
                    place == places[k]
                IN CASE place[1] = "Local"       -> set = SetLocal(place[2])
                     [] place[1] = "Global"      -> set = SetGlobal(place[2])
                     [] place[1] = "FieldAccess" -> set = SetField(k - 1, place[2])
                     [] place[1] = "TableIndex"  -> set = SetTable(k - 1)

\* An assignment to three targets, a field the last and an indexed table
\* the second, is finished with fewer values than targets.
C10_ThreeTargets ==
    /\ Done("parse_assign_2")
    /\ Len(prev.frame.places) = 3
    /\ prev.frame.places[3][1] = "FieldAccess"
    /\ prev.frame.places[2][1] = "TableIndex"
    /\ prev.result.val < 3

---------------------------------------------------------------------------

\* The instructions of code from 0-based index k on are n sets: SetLocal,
\* SetGlobal, SetField or SetTable.
SetsFrom(code, k, n) ==
    /\ Len(code) = k + n
    /\ \A m \in 1..n :
           Op(InstrAt(code, k + m - 1)) \in {"SetLocal", "SetGlobal", "SetField",
                                            "SetTable"}

\* What follows the right-hand expressions of a statement with num_targets
\* targets and num_values values, code_before being the code up to and
\* including the expressions: num_targets - num_values PushNil or
\* num_values - num_targets Pop or nothing, and then num_targets sets.
Reconciled(code_before, code, num_targets, num_values) ==
    /\ SubSeq(code, 1, Len(code_before)) = code_before
    /\ IF num_values < num_targets
       THEN /\ \A m \in 1..(num_targets - num_values) :
                   InstrAt(code, Len(code_before) + m - 1) = PushNil
            /\ SetsFrom(code, Len(code_before) + num_targets - num_values,
                        num_targets)
       ELSE IF num_values > num_targets
       THEN /\ \A m \in 1..(num_values - num_targets) :
                   InstrAt(code, Len(code_before) + m - 1) = Pop
            /\ SetsFrom(code, Len(code_before) + num_values - num_targets,
                        num_targets)
       ELSE SetsFrom(code, Len(code_before), num_targets)

\* The number of names a local declaration without initialiser declared in
\* the last step
NamesDeclared == Len(locals) - Len(prev.locals)

(* C11: after the v right-hand expressions of an assignment or of a local
   declaration with t targets, t - v PushNil are emitted if v < t, v - t Pop
   if v > t and neither if v = t, and then exactly t set instructions; a
   local declaration without initialiser emits t PushNil and t SetLocal. *)
C11_ArityReconciled ==
    /\ Done("parse_assign_2") =>
         Reconciled(prev.chunk.code, chunk.code, Len(prev.frame.places),
                    prev.result.val)
    /\ Done("parse_locals_1") =>
         Reconciled(prev.chunk.code, chunk.code, prev.frame.num_names,
                    prev.result.val)
    /\ (Done("parse_locals")
           /\ TokAt(source, prev.pos + 2 * NamesDeclared).typ # "Assign") =>
         /\ NamesDeclared >= 1
         /\ Reconciled(prev.chunk.code, chunk.code, NamesDeclared, 0)

\* A local declaration of two names or more is finished with more values
\* than names.
C11_SurplusValues ==
    /\ Done("parse_locals_1")
    /\ prev.frame.num_names >= 2
    /\ prev.result.val > prev.frame.num_names

\* A local declaration of two names or more is finished with fewer values
\* than names.
C11_MissingValues ==
    /\ Done("parse_locals_1")
    /\ prev.frame.num_names >= 2
    /\ prev.result.val < prev.frame.num_names

---------------------------------------------------------------------------

\* The token types of the right-hand side of a source `name = ...`
RightHandSide == [k \in 1..(Len(source) - 3) |-> source[k + 2].typ]

\* The order of evaluation of an expression made of numbers, unary operators
\* and `^`, given as its token types: a unary operator applies to all that
\* follows it, `^` to the number on its left and to all that follows it.
\* "?" stands for an expression that is not of this form.
RECURSIVE UnaryPowOrder(_)
UnaryPowOrder(types) ==
    IF types = <<>> THEN <<"?">>
    ELSE IF types[1] \in {"Not", "Hash", "Minus"}
    THEN UnaryPowOrder(Tail(types)) \o unary_instr(types[1])
    ELSE IF types[1] # "LiteralNumber" THEN <<"?">>
    ELSE IF Len(types) = 1 THEN <<"PushNum">>
    ELSE IF types[2] = "Caret"
    THEN <<"PushNum">> \o UnaryPowOrder(SubSeq(types, 3, Len(types))) \o <<"Pow">>
    ELSE <<"?">>

\* The variant names of the instructions of code
Ops(code) == [k \in 1..Len(code) |-> Op(code[k])]

\* parse_str returned the unit of a source `name = ...` whose right-hand
\* side is made of numbers, unary operators and `^`.
UnaryPowCompiled ==
    /\ status = "returned"
    /\ result.ok
    /\ Len(source) >= 4
    /\ source[1].typ = "Identifier"
    /\ source[2].typ = "Assign"
    /\ \A k \in 1..Len(UnaryPowOrder(RightHandSide)) :
           UnaryPowOrder(RightHandSide)[k] # "?"

(* C12: the instruction of a unary operator is emitted when all that follows
   the operator, a power expression included, is compiled, and Pow is
   emitted when the right operand of `^`, its unary operators included, is
   compiled.  So in the unit of `name = e`, e made of numbers, unary
   operators and `^`, a leading unary operator comes after the Pow, a unary
   operator to the right of `^` before it, stacked unary operators come
   innermost first and `^` associates to the right. *)
C12_UnaryAndPow ==
    /\ Done("parse_unary_1") =>
           chunk.code = Append(prev.chunk.code, prev.frame.instr)
    /\ Done("parse_pow_1") =>
           chunk.code = Append(prev.chunk.code, Simple("Pow"))
    /\ UnaryPowCompiled =>
           Ops(result.val.code) =
               UnaryPowOrder(RightHandSide) \o <<"SetGlobal", "Return">>

\* A unit is returned with a stacked unary operator in front of a `^` whose
\* right operand has a unary operator.
C12_UnaryBothSides ==
    /\ UnaryPowCompiled
    /\ Len(RightHandSide) >= 6
    /\ RightHandSide[1] \in {"Not", "Hash", "Minus"}
    /\ RightHandSide[2] \in {"Not", "Hash", "Minus"}
    /\ RightHandSide[4] = "Caret"
    /\ RightHandSide[5] \in {"Not", "Hash", "Minus"}

\* A unit is returned for `^` applied twice.
C12_PowTwice ==
    /\ UnaryPowCompiled
    /\ Cardinality({k \in 1..Len(RightHandSide) : RightHandSide[k] = "Caret"}) = 2

---------------------------------------------------------------------------

\* The operands of the Closure instructions of code, in the order of code
ClosureOperands(code) ==
    LET IsClosure(e) == Op(e) = "Closure"
        closures == SelectSeq(code, IsClosure)
    IN [k \in 1..Len(closures) |-> closures[k][2]]

(* C13: when a function literal is finished, its unit is the new last entry
   of the nested list of the unit the literal stands in (the unit that was
   being compiled when `function` was met, the units around it staying as
   they were), and the Closure emitted for it carries the 0-based position
   of that entry.  So in every unit of what parse_str returns the Closure
   operands are 0, 1, 2, .. in the order of the code, one for each nested
   unit. *)
C13_NestedInSourceOrder ==
    /\ Done("parse_fndef_1") =>
           /\ chunk.nested = Append(prev.chunk.nested, prev.result.val)
           /\ chunk.code = Append(prev.chunk.code, Closure(Len(prev.chunk.nested)))
           /\ other_chunks = prev.other_chunks
    /\ (status = "returned" /\ result.ok) =>
           \A unit \in Units(result.val) :
               ClosureOperands(unit.code) = [k \in 1..Len(unit.nested) |-> k - 1]

\* The second function literal of a function body is finished, the body
\* itself being the second literal of the main unit.
C13_SecondInsideSecond ==
    /\ Done("parse_fndef_1")
    /\ Len(prev.chunk.nested) = 1
    /\ Len(other_chunks) = 2
    /\ Len(other_chunks[2].nested) = 1

---------------------------------------------------------------------------

\* No two entries of queue are equal.
NoDuplicates(queue) ==
    \A k, m \in 1..Len(queue) : queue[k] = queue[m] => k = m

\* Interning value in pool_before gave pool and the 0-based index: the index
\* of the equal entry and the same pool if there was one, the index of the
\* new last entry otherwise.
Interned(pool_before, pool, value, index) ==
    /\ index < Len(pool)
    /\ pool[index + 1] = value
    /\ IF \E k \in 1..Len(pool_before) : pool_before[k] = value
       THEN pool = pool_before
       ELSE pool = Append(pool_before, value)

\* find_or_add on pool and its first or last entry returns the entry's index
\* and the same pool.
FindsEntries(pool) ==
    \A k \in {1, Len(pool)} \cap (1..Len(pool)) :
        find_or_add(pool, pool[k]) = [queue |-> pool, ret |-> Some(k - 1)]

\* The last entry of queue is equal to no earlier one.
LastIsNew(queue) ==
    \A k \in 1..(Len(queue) - 1) : queue[k] # queue[Len(queue)]

\* The instruction emitted last
LastInstr == chunk.code[Len(chunk.code)]

(* C14: a number or string literal that parse_expr_base compiles is pushed
   with the index its value has in the unit's pool: the index of the entry
   that was equal to it, the pool staying as it was, or else of a new last
   entry.  Whenever a pool of the unit under construction changes, its last
   entry is equal to no earlier one, and find_or_add on the pool and its
   first or last entry returns the entry's index and the same pool.  No
   pool of a unit that parse_str returns holds two equal entries. *)
C14_Interning ==
    /\ (Done("parse_expr_base")
          /\ FirstToken.typ \in {"LiteralNumber", "LiteralHexNumber"}) =>
           /\ Op(LastInstr) = "PushNum"
           /\ Interned(prev.chunk.number_literals, chunk.number_literals,
                       IF FirstToken.typ = "LiteralNumber"
                       THEN parse_f64(get_text(FirstToken))
                       ELSE parse_hex(get_text(FirstToken)),
                       LastInstr[2])
           /\ chunk.string_literals = prev.chunk.string_literals
    /\ (Done("parse_expr_base") /\ FirstToken.typ = "LiteralString") =>
           /\ Op(LastInstr) = "PushString"
           /\ Interned(prev.chunk.string_literals, chunk.string_literals,
                       get_literal_string_contents(FirstToken), LastInstr[2])
           /\ chunk.number_literals = prev.chunk.number_literals
    /\ chunk.number_literals # prev.chunk.number_literals =>
           FindsEntries(chunk.number_literals) /\ LastIsNew(chunk.number_literals)
    /\ chunk.string_literals # prev.chunk.string_literals =>
           FindsEntries(chunk.string_literals) /\ LastIsNew(chunk.string_literals)
    /\ (status = "returned" /\ result.ok) =>
           \A unit \in Units(result.val) :
               NoDuplicates(unit.number_literals) /\ NoDuplicates(unit.string_literals)

\* A number literal is compiled whose value is the second entry of the pool,
\* put there by a literal of another spelling.
C14_SecondEntryAgain ==
    /\ Done("parse_expr_base")
    /\ FirstToken.typ = "LiteralHexNumber"
    /\ Len(prev.chunk.number_literals) = 2
    /\ prev.chunk.number_literals[2] = parse_hex(get_text(FirstToken))

\* A string literal is compiled that is equal to a global name of the unit.
C14_StringAgain ==
    /\ Done("parse_expr_base")
    /\ FirstToken.typ = "LiteralString"
    /\ \E k \in 1..Len(prev.chunk.string_literals) :
           prev.chunk.string_literals[k] = get_literal_string_contents(FirstToken)

---------------------------------------------------------------------------

\* The last step was parse_expr_base on a number or string literal whose
\* value was not in the unit's pool.
NewNumber ==
    /\ Ran("parse_expr_base")
    /\ FirstToken.typ = "LiteralNumber"
    /\ \A k \in 1..Len(prev.chunk.number_literals) :
           prev.chunk.number_literals[k] # parse_f64(get_text(FirstToken))

NewString ==
    /\ Ran("parse_expr_base")
    /\ FirstToken.typ = "LiteralString"
    /\ \A k \in 1..Len(prev.chunk.string_literals) :
           prev.chunk.string_literals[k] # get_literal_string_contents(FirstToken)

(* C15 as stated: a new distinct number (string) literal is interned
   whenever the pool holds fewer than 256 entries, the pool growing by it,
   and is refused with TooManyNumbers (TooManyStrings) only when the pool
   holds 256 entries. *)
C15_PoolAccepts256 ==
    /\ NewNumber =>
           IF Len(prev.chunk.number_literals) < 256
           THEN /\ result.ok
                /\ Len(chunk.number_literals) = Len(prev.chunk.number_literals) + 1
           ELSE ~result.ok /\ result.err.kind = "TooManyNumbers"
    /\ NewString =>
           IF Len(prev.chunk.string_literals) < 256
           THEN /\ result.ok
                /\ Len(chunk.string_literals) = Len(prev.chunk.string_literals) + 1
           ELSE ~result.ok /\ result.err.kind = "TooManyStrings"

---------------------------------------------------------------------------

\* The last step was parse_locals on the declaration of one name.
OneLocalDeclared ==
    /\ Ran("parse_locals")
    /\ TokAt(source, prev.pos + 1).typ = "Identifier"
    /\ TokAt(source, prev.pos + 2).typ # "Comma"

(* C16 as stated: the declaration of a local succeeds, the scope list
   growing by the binding, whenever fewer than 256 bindings are active, so
   that up to 256 are active at a time; it fails with TooManyLocals only
   when 256 are active, and then the scope list and the unit's local-slot
   count are as they were. *)
C16_LocalsUpTo256 ==
    OneLocalDeclared =>
        IF Len(prev.locals) < 256
        THEN /\ ~(~result.ok /\ result.err.kind = "TooManyLocals")
             /\ locals = Append(prev.locals,
                                <<get_text(TokAt(source, prev.pos + 1)), nest_level>>)
        ELSE /\ ~result.ok
             /\ result.err.kind = "TooManyLocals"
             /\ locals = prev.locals
             /\ chunk.num_locals = prev.chunk.num_locals

\* The last step was parse_expr_base on a function literal without
\* parameters.
FunctionLiteralBegun ==
    /\ Ran("parse_expr_base")
    /\ FirstToken.typ = "Function"
    /\ TokAt(source, prev.pos + 1).typ = "LParen"
    /\ TokAt(source, prev.pos + 2).typ = "RParen"

(* C17 as stated: a function literal is accepted, its body being compiled
   next, whenever the enclosing unit holds fewer than 256 nested units, and
   is refused with Complexity only when the unit holds 256. *)
C17_NestedUpTo256 ==
    FunctionLiteralBegun =>
        IF Len(prev.chunk.nested) < 256
        THEN result.ok /\ stack # <<>> /\ Top.pc = "parse_chunk"
        ELSE ~result.ok /\ result.err.kind = "Complexity"

---------------------------------------------------------------------------

\* The token types of the first n tokens of the source
Begins(types) ==
    /\ Len(source) >= Len(types)
    /\ \A k \in 1..Len(types) : source[k].typ = types[k]

\* The 1-based index of the token that follows a parenthesized expression or
\* a call standing where the source requires an assignment target, 0 if the
\* source does not begin with one: `(name)` or `name, (name)` that nothing
\* extends, `name()` before `=` or `,`, or `name, name()` that nothing extends
AfterNonTarget ==
    LET extends(k) == TokAt(source, k).typ \in
                          {"Dot", "LSquare", "LParen", "Colon", "LiteralString", "LCurly"}
    IN CASE Begins(<<"LParen", "Identifier", "RParen">>) /\ ~extends(4) -> 4
         [] Begins(<<"Identifier", "LParen", "RParen">>)
              /\ TokAt(source, 4).typ \in {"Assign", "Comma"} -> 4
         [] Begins(<<"Identifier", "Comma", "LParen", "Identifier", "RParen">>)
              /\ ~extends(6) -> 6
         [] Begins(<<"Identifier", "Comma", "Identifier", "LParen", "RParen">>)
              /\ ~extends(6) -> 6
         [] OTHER -> 0

(* C18 as stated: when a parenthesized expression or a call result stands
   where an assignment target is required, parse_str returns no unit but
   the error of err_unexpected for the token that follows the expression:
   UnexpectedTok, or UnexpectedEof at the end of the input, at that token's
   position. *)
C18_ErrorAtNextToken ==
    (status = "returned" /\ AfterNonTarget > 0) =>
        /\ ~result.ok
        /\ result.err = err_unexpected(TokAt(source, AfterNonTarget))

---------------------------------------------------------------------------

(* C19 as stated: the error parse_str returns is recoverable only if the
   compile succeeded up to a token it could not use or failed with
   UnexpectedEof or UnexpectedTok; when parse_chunk has failed with a
   resource limit (TooManyLocals, TooManyStrings, TooManyNumbers,
   Complexity) or with UnsupportedFeature, what parse_str returns is not
   recoverable, whatever follows the point of failure.  When parse_all
   returns, prev.result is what parse_chunk returned. *)
C19_FatalStaysFatal ==
    (status = "returned" /\ ~result.ok /\ is_recoverable(result.err.kind)) =>
        \/ prev.result.ok
        \/ prev.result.err.kind \in {"UnexpectedEof", "UnexpectedTok"}

---------------------------------------------------------------------------

\* The last step was parse_expr_base on a function literal whose parameter
\* list begins with a name or with `...`.
ParametersMet ==
    /\ Ran("parse_expr_base")
    /\ FirstToken.typ = "Function"
    /\ TokAt(source, prev.pos + 1).typ = "LParen"
    /\ TokAt(source, prev.pos + 2).typ \in {"Identifier", "DotDotDot"}

(* C20 as stated: a function literal with a non-empty parameter list makes
   parse_expr_base return an error, which parse_str hands to its caller;
   the process does not abort and no unit is produced. *)
C20_ParametersRejected ==
    ParametersMet => status # "panicked" /\ ~result.ok

---------------------------------------------------------------------------

(* C21 as stated: compilation enforces a nesting-depth limit; a source whose
   blocks nest deeper than the limit is refused with Complexity instead of
   being descended into.  The limit is taken as large as the sources allow:
   the deepest source nests U8_MAX + 1 do blocks, so the statement is that
   the parser is never more than U8_MAX blocks deep unless it has failed
   with Complexity. *)
C21_NestingLimited ==
    nest_level > U8_MAX => ~result.ok /\ result.err.kind = "Complexity"

---------------------------------------------------------------------------

(* C22 as stated: when the arms that follow an arm of an if chain have been
   compiled, so that the end of the whole chain is known, the BranchFalse of
   the arm is overwritten so as to land on the first instruction after the
   entire chain; an arm that ends the chain lands there as well. *)
C22_BranchesToChainEnd ==
    /\ Done("parse_if_arm_3") =>
         /\ Op(InstrAt(chunk.code, prev.frame.branch_instr_index)) = "BranchFalse"
         /\ Lands(chunk.code, prev.frame.branch_instr_index) = Len(chunk.code)
    /\ (Done("parse_if_arm_2") /\ FirstToken.typ \notin {"ElseIf", "Else"}) =>
         /\ Op(InstrAt(chunk.code, prev.frame.branch_instr_index)) = "BranchFalse"
         /\ Lands(chunk.code, prev.frame.branch_instr_index) = Len(chunk.code)

(* C22, amended: when the arms that follow an arm of an if chain have been
   compiled, the Jump placed after the arm's body is overwritten so as to
   land on the first instruction after the entire chain, and the BranchFalse
   of the arm so as to land on the first instruction of the next arm, just
   past that Jump; closing the chain adds no instruction, so the end of the
   chain is the same for all its arms. *)
C22_JumpsToChainEnd ==
    /\ Done("parse_else_or_elseif_1") =>
         /\ Top.pc = "parse_if_arm_3"
         /\ Top.branch_target = prev.frame.jump_instr_index
         /\ Len(chunk.code) = Len(prev.chunk.code)
         /\ InstrAt(prev.chunk.code, prev.frame.jump_instr_index) = Jump(0)
         /\ InstrAt(chunk.code, prev.frame.jump_instr_index) =
                Jump(Len(chunk.code) - prev.frame.jump_instr_index - 1)
    /\ Done("parse_if_arm_3") =>
         LET branch_instr_index == prev.frame.branch_instr_index
             jump_instr_index == prev.frame.branch_target
         IN /\ Len(chunk.code) = Len(prev.chunk.code)
            /\ InstrAt(prev.chunk.code, branch_instr_index) = BranchFalse(0)
            /\ InstrAt(chunk.code, branch_instr_index) =
                   BranchFalse(jump_instr_index - branch_instr_index)
            /\ Lands(chunk.code, jump_instr_index) = Len(chunk.code)
            /\ Lands(chunk.code, branch_instr_index) <= Len(chunk.code)

\* The first arm of a chain of three is closed: its BranchFalse lands on the
\* second arm, short of the end of the chain, and its Jump past the Jump of
\* the second arm.
C22_ThreeArms ==
    /\ Done("parse_if_arm_3")
    /\ Lands(chunk.code, prev.frame.branch_instr_index) < Len(chunk.code)
    /\ \E k \in (prev.frame.branch_target + 1)..(Len(chunk.code) - 1) :
           /\ Op(InstrAt(chunk.code, k)) = "Jump"
           /\ Lands(chunk.code, k) = Len(chunk.code)

---------------------------------------------------------------------------

\* The condition of a repeat loop is being compiled: parse_repeat waits for
\* parse_expr and no block has been opened since.
InUntil ==
    \E k \in 1..Len(stack) :
        /\ stack[k].pc = "parse_repeat_2"
        /\ \A m \in (k + 1)..Len(stack) :
               stack[m].pc \notin {"parse_statements", "parse_chunk"}

\* The bindings of a name made at a level
BindingsAt(ls, name, lvl) == {k \in Bindings(ls, name) : ls[k][2] = lvl}

(* C23: the bindings declared in the body of a repeat loop are still in the
   scope list, at the body's level, when the `until` condition is compiled:
   a name in the condition that the body declared resolves to the slot of
   the body's last binding of it, not to a global or an outer binding.  When
   the loop ends, the bindings of the body's level are dropped and the level
   is one less, so that no binding of the body is left for what follows. *)
C23_RepeatScope ==
    /\ Done("parse_repeat_1") =>
         /\ locals = prev.locals
         /\ nest_level = prev.nest_level
         /\ stack[Len(stack) - Len(ExprFrames)].pc = "parse_repeat_2"
    /\ (Resolved /\ InUntil) =>
         LET declared_in_body ==
                 BindingsAt(locals, get_text(FirstToken), nest_level)
         IN declared_in_body # {} =>
                Top.base_expr = Local(Greatest(declared_in_body) - 1)
    /\ Done("parse_repeat_2") =>
         /\ nest_level = prev.nest_level - 1
         /\ Len(locals) <= Len(prev.locals)
         /\ locals = SubSeq(prev.locals, 1, Len(locals))
         /\ \A k \in 1..Len(prev.locals) :
                k > Len(locals) <=> prev.locals[k][2] = prev.nest_level
         /\ \A k \in 1..Len(locals) : locals[k][2] <= nest_level

\* The condition names a local of the body that shadows an outer local: it
\* resolves to the body's slot.
C23_BodyLocalInUntil ==
    /\ Resolved /\ InUntil
    /\ Cardinality(Bindings(locals, get_text(FirstToken))) = 2
    /\ Cardinality(BindingsAt(locals, get_text(FirstToken), nest_level)) = 1
    /\ Top.base_expr = Local(1)

\* After such a loop the name resolves to the outer local again.
C23_OuterLocalAfterLoop ==
    /\ Resolved /\ ~InUntil
    /\ nest_level = 0
    /\ \E k \in 3..prev.pos :
           /\ source[k].typ = "Until"
           /\ source[k - 2].typ = "Local"
           /\ get_text(source[k - 1]) = get_text(FirstToken)
    /\ Top.base_expr = Local(0)
    /\ chunk.num_locals = 2

---------------------------------------------------------------------------

\* The instruction at index k passes control on by its offset, or to the
\* next instruction, or either way.
Branches(instr) ==
    Op(instr) \in {"BranchFalse", "BranchTrueKeep", "BranchFalseKeep"}

\* The depths of the evaluation stack with which execution of code, begun at
\* index k with d values on the stack, arrives at index stop, over all ways
\* its branches can go; -1 stands for an execution that takes a value off an
\* empty stack, goes backwards or passes stop.
RECURSIVE depths_at(_, _, _, _)
depths_at(code, k, d, stop) ==
    IF d < 0 \/ k > stop THEN {-1}
    ELSE IF k = stop THEN {d}
    ELSE LET instr == InstrAt(code, k)
             after == d + stack_effect(instr)
             taken == IF Offset(instr) < 0 THEN {-1}
                      ELSE depths_at(code, Target(k, Offset(instr)), after, stop)
         IN IF Op(instr) = "Jump" THEN taken
            ELSE IF Branches(instr)
            THEN taken \cup depths_at(code, k + 1, after, stop)
            ELSE depths_at(code, k + 1, after, stop)

\* The instructions that only statements emit
StatementOps ==
    {"SetGlobal", "SetLocal", "SetField", "SetTable", "BranchFalse", "Jump",
     "ForPrep", "ForLoop"}

\* The last step was parse_or or parse_and with a right operand compiled.
RightOperandCompiled(pc) == Done(pc) /\ IsSome(prev.frame.branch_instr_index)

\* On every path, the code from index k, begun with d values on the stack,
\* reaches the end of the code of the last step one value deeper.
OneDeeper(code, k, d) == depths_at(code, k, d, Len(prev.chunk.code)) = {d + 1}

(* C24: executed along every path through its branches, the code of an
   expression leaves the evaluation stack exactly one value deeper.  For an
   `or` or `and` whose right operand has been compiled: begun at the branch
   with the left operand's value on the stack, every path reaches the end of
   the right operand with one value, and the right operand by itself adds
   one.  The condition of a while loop adds one value.  The right-hand side
   of a program that is one assignment to a global adds one value. *)
C24_OneValue ==
    /\ \A pc \in {"parse_or", "parse_and"} :
         RightOperandCompiled(pc) =>
           LET branch_instr_index == Get(prev.frame.branch_instr_index)
           IN /\ Op(InstrAt(chunk.code, branch_instr_index)) = Keep(pc)
              /\ depths_at(chunk.code, branch_instr_index, 1,
                           Len(prev.chunk.code)) = {1}
              /\ OneDeeper(chunk.code, branch_instr_index + 2, 0)
    /\ Done("parse_while_1") =>
         OneDeeper(prev.chunk.code, prev.frame.condition_start, 0)
    /\ (status = "returned" /\ result.ok /\ program.kind = "none") =>
         LET code == result.val.code
             n == Len(code)
         IN (/\ n >= 2
             /\ Op(code[n - 1]) = "SetGlobal"
             /\ \A k \in 1..(n - 2) : Op(code[k]) \notin StatementOps) =>
                depths_at(code, 0, 0, n - 2) = {1}

\* An `or` whose right operand holds a branch of its own has been compiled.
C24_BranchInRightOperand ==
    /\ RightOperandCompiled("parse_or")
    /\ \E k \in (Get(prev.frame.branch_instr_index) + 2)..(Len(prev.chunk.code) - 1) :
           Branches(InstrAt(chunk.code, k))

\* The condition of a while loop holds a branch.
C24_BranchInCondition ==
    /\ Done("parse_while_1")
    /\ \E k \in prev.frame.condition_start..(Len(prev.chunk.code) - 1) :
           Branches(InstrAt(prev.chunk.code, k))

---------------------------------------------------------------------------

\* The last step was parse_comparison after a comparison operator and its
\* right operand had been compiled, with a comparison operator next.
SecondComparison ==
    /\ Ran("parse_comparison")
    /\ IsSome(prev.frame.instr)
    /\ FirstToken.typ \in ComparisonOps

(* C25 as stated: comparison operators do not chain; after one comparison
   operator and its right operand have been compiled, a comparison operator
   that comes next is not consumed: parse_comparison returns with the
   operator still ahead. *)
C25_NonChaining ==
    SecondComparison =>
        /\ pos = prev.pos
        /\ stack # <<>>
        /\ Top.pc = "parse_and"

\* The right-hand side is a chain of names joined by comparison operators.
ComparisonChain ==
    /\ Len(RightHandSide) % 2 = 1
    /\ \A k \in 1..Len(RightHandSide) :
           IF k % 2 = 1 THEN RightHandSide[k] = "Identifier"
           ELSE RightHandSide[k] \in ComparisonOps

(* C25, amended: comparison operators chain to the left.  After a
   comparison operator and its right operand have been compiled, the
   operator's instruction is emitted; a comparison operator that comes next
   is consumed and its right operand compiled as one more operand of the
   same level, so that `a < b < c` is compiled as `(a < b) < c`: the
   operands in order, each operator's instruction after its right operand.
   Without an operator next, parse_comparison returns. *)
C25_LeftAssociative ==
    /\ Done("parse_comparison") =>
         /\ chunk.code = prev.chunk.code
                \o (IF IsSome(prev.frame.instr) THEN <<Get(prev.frame.instr)>>
                    ELSE <<>>)
         /\ IF FirstToken.typ \in ComparisonOps
            THEN /\ pos = prev.pos + 1
                 /\ Len(stack) > Len(ConcatFrames)
                 /\ SubSeq(stack, Len(stack) - Len(ConcatFrames), Len(stack)) =
                        << [pc |-> "parse_comparison",
                            instr |-> Some(<<FirstToken.typ>>)] >> \o ConcatFrames
            ELSE /\ pos = prev.pos
                 /\ Top.pc = "parse_and"
    /\ (status = "returned" /\ result.ok /\ program.kind = "none"
          /\ source[1].typ = "Identifier" /\ source[2].typ = "Assign"
          /\ ComparisonChain) =>
         Ops(result.val.code) =
             [k \in 1..Len(RightHandSide) |->
                 IF k = 1 \/ k % 2 = 0 THEN "GetGlobal" ELSE RightHandSide[k - 1]]
               \o <<"SetGlobal", "Return">>

\* A chain of three comparison operators has been compiled.
C25_ThreeInChain ==
    /\ status = "returned" /\ result.ok /\ program.kind = "none"
    /\ source[1].typ = "Identifier" /\ source[2].typ = "Assign"
    /\ ComparisonChain
    /\ Len(RightHandSide) = 7

\* A second comparison operator has been consumed.
C25_SecondConsumed ==
    /\ SecondComparison
    /\ result.ok
    /\ pos = prev.pos + 1

---------------------------------------------------------------------------

\* The local slots an instruction uses
SlotsUsed(instr) ==
    IF Op(instr) \in {"GetLocal", "SetLocal"} THEN {instr[2]}
    ELSE IF Op(instr) \in {"ForPrep", "ForLoop"} THEN instr[2]..(instr[2] + 3)
    ELSE {}

(* C26 as stated: in every finished unit, the main unit or the body of a
   function literal, every slot that a GetLocal, a SetLocal, a ForPrep or a
   ForLoop (its base and the three slots after it) uses is smaller than the
   unit's local-slot count, also when the function literal is compiled while
   locals of the enclosing functions are active. *)
C26_SlotsWithinCount ==
    Done("parse_chunk_1") =>
        \A k \in 1..Len(result.val.code) :
            \A slot \in SlotsUsed(result.val.code[k]) :
                slot < result.val.num_locals

---------------------------------------------------------------------------

\* The instructions that carry an offset, and the offset
Transfers(instr) ==
    Op(instr) \in {"Jump", "BranchFalse", "BranchTrueKeep", "BranchFalseKeep",
                   "ForPrep", "ForLoop"}

OffsetOf(instr) ==
    IF Op(instr) \in {"ForPrep", "ForLoop"} THEN instr[3] ELSE instr[2]

\* The indices whose instruction lands outside 0 .. the last index of code
Astray(code) ==
    { k \in 0..(Len(code) - 1) :
        /\ Transfers(InstrAt(code, k))
        /\ Target(k, OffsetOf(InstrAt(code, k))) \notin 0..(Len(code) - 1) }

(* C27: in every unit that a successful compile returns, the main unit and
   the units nested in it, the last instruction is a Return, the only one
   of the unit, and every Jump, BranchFalse, BranchTrueKeep,
   BranchFalseKeep, ForPrep and ForLoop lands, at its own index + 1 + its
   offset, on an index of the unit between 0 and that of the Return. *)
C27_TargetsInside ==
    (status = "returned" /\ result.ok) =>
        \A unit \in Units(result.val) :
            /\ unit.code # <<>>
            /\ \A k \in 1..Len(unit.code) :
                   unit.code[k] = Return <=> k = Len(unit.code)
            /\ Astray(unit.code) = {}

\* A returned unit holds a branch forwards that lands on its Return and a
\* jump backwards that lands on its first instruction.
C27_LandsOnReturn ==
    /\ status = "returned" /\ result.ok
    /\ LET code == result.val.code
       IN \E k, m \in 0..(Len(code) - 1) :
              /\ Transfers(InstrAt(code, k))
              /\ Target(k, OffsetOf(InstrAt(code, k))) = Len(code) - 1
              /\ Transfers(InstrAt(code, m))
              /\ Target(m, OffsetOf(InstrAt(code, m))) = 0

\* A unit nested in the returned one holds a jump backwards.
C27_BackwardsInNested ==
    /\ status = "returned" /\ result.ok
    /\ \E unit \in Units(result.val) \ {result.val} :
           \E k \in 1..Len(unit.code) :
               Transfers(unit.code[k]) /\ OffsetOf(unit.code[k]) < 0

---------------------------------------------------------------------------

\* The stretches of code that end a block: a function body, a numeric for,
\* a do block, a repeat loop, a while loop, an if or elseif arm, an else arm
BlockEnds ==
    {"parse_fndef_1", "parse_numeric_for_3", "parse_do_1", "parse_repeat_2",
     "parse_while_2", "parse_if_arm_2", "parse_else_1"}

\* The scope list and the level when the innermost block open before the
\* last step was entered
AtEntry == prev.entered[Len(prev.entered)]

(* C28: when a block-introducing construct (function body, numeric for, do
   block, repeat, while, if / elseif / else arm) has been compiled, the
   scope list, with its names, levels and order, and the nesting level are
   what they were when the construct began, however the constructs nest.
   The step that closes an arm in front of `else` opens the else arm at
   once: the scope list is as it was when the closed arm began and the level
   is that of the closed arm again.  No other step lowers the level, and a
   compile ends at level 0 with no block open. *)
C28_ScopeRestored ==
    /\ \A pc \in BlockEnds :
         Done(pc) =>
           /\ prev.entered # <<>>
           /\ locals = AtEntry.locals
           /\ IF pc = "parse_if_arm_2" /\ FirstToken.typ = "Else"
              THEN /\ nest_level = AtEntry.nest_level + 1
                   /\ entered = prev.entered
              ELSE /\ nest_level = AtEntry.nest_level
                   /\ Len(entered) = Len(prev.entered) - 1
    /\ (result.ok /\ nest_level < prev.nest_level) => prev.frame.pc \in BlockEnds
    /\ Len(entered) = nest_level
    /\ (status = "returned" /\ result.ok) => nest_level = 0

\* A block that declared a local is closed inside a block that declared one
\* after a declaration outside: one binding is dropped, two are kept.
C28_InnerBlockClosed ==
    /\ \E pc \in BlockEnds : Done(pc)
    /\ Len(prev.locals) = 3
    /\ Len(locals) = 2
    /\ nest_level = 1

\* A numeric for loop is closed: its four slots are dropped.
C28_ForClosed ==
    /\ Done("parse_numeric_for_3")
    /\ Len(prev.locals) = Len(locals) + 4
    /\ locals # <<>>

---------------------------------------------------------------------------

(* C29 as stated: when an assignment is finished, however many targets it
   has, more than 255 included, it has been compiled without an overflow
   of 8-bit arithmetic, and the stack offset of the SetField / SetTable of
   each target is the number of targets to its left. *)
C29_OffsetsNotWrapped ==
    Ran("parse_assign_2") =>
        LET places == prev.frame.places
            num_lvals == Len(places)
        IN /\ status # "panicked"
           /\ result.ok =>
                \A k \in 1..num_lvals :
                    LET set == InstrAt(chunk.code, Len(chunk.code) - k)
                    IN /\ places[k][1] = "FieldAccess" => set[2] = k - 1
                       /\ places[k][1] = "TableIndex" => set[2] = k - 1

---------------------------------------------------------------------------

\* The frame at depth k is one of the stretches pcs, and the step is in an
\* expression of its own, not in a function body inside that expression.
Directly(k, pcs) ==
    /\ stack[k].pc \in pcs
    /\ \A m \in (k + 1)..Len(stack) :
           stack[m].pc \notin {"parse_statements", "parse_chunk"}

\* The stretches of a numeric for during which its start, stop and step are
\* compiled
ForHeader ==
    {"parse_numeric_for_1", "parse_numeric_for_2", "parse_numeric_for_step_1"}

(* C30: `local n1, ..., nk` puts its k names, in order and at the current
   level, at the end of the scope list before anything of `= e1, ..., em`
   is compiled, so that the scope list has the k new slots during the
   initialisers and a declared name in an initialiser resolves to the last
   of the new slots of that name, not to an outer binding or a global.  A
   numeric for puts three unnamed slots and then its loop variable in the
   scope list, one level up, before its start expression is compiled, so
   that the loop variable in start, stop or step resolves to the fourth
   slot of the loop. *)
C30_DeclaredBeforeInitialisers ==
    /\ Done("parse_locals") =>
         LET k == Len(locals) - Len(prev.locals)
         IN /\ k >= 1
            /\ locals = prev.locals
                          \o [i \in 1..k |->
                                <<get_text(TokAt(source, prev.pos + 2 * i - 1)),
                                  nest_level>>]
            /\ \A i \in 1..(k - 1) : TokAt(source, prev.pos + 2 * i).typ = "Comma"
            /\ TokAt(source, prev.pos + 2 * k).typ = "Assign" =>
                 /\ pos = prev.pos + 2 * k + 1
                 /\ chunk.code = prev.chunk.code
                 /\ Len(stack) > Len(ExplistFrames)
                 /\ stack[Len(stack) - Len(ExplistFrames)] =
                        [pc |-> "parse_locals_1", start |-> Len(prev.locals),
                         num_names |-> k]
    /\ \A k \in 1..Len(stack) :
         (Resolved /\ Directly(k, {"parse_locals_1"})) =>
           LET new == {j \in Bindings(locals, get_text(FirstToken)) :
                          /\ j > stack[k].start
                          /\ j <= stack[k].start + stack[k].num_names}
           IN /\ Len(locals) = stack[k].start + stack[k].num_names
              /\ new # {} => Top.base_expr = Local(Greatest(new) - 1)
    /\ Done("parse_for") =>
         /\ nest_level = prev.nest_level + 1
         /\ locals = prev.locals
                       \o << <<<<>>, nest_level>>, <<<<>>, nest_level>>,
                             <<<<>>, nest_level>>,
                             <<get_text(TokAt(source, prev.pos + 1)), nest_level>> >>
         /\ chunk.code = prev.chunk.code
         /\ stack[Len(stack) - Len(ExprFrames)] =
                [pc |-> "parse_numeric_for_1",
                 current_local_slot |-> Len(prev.locals)]
    /\ \A k \in 1..Len(stack) :
         (Resolved /\ Directly(k, ForHeader)) =>
           LET base == stack[k].current_local_slot
           IN /\ Len(locals) = base + 4
              /\ get_text(FirstToken) = locals[base + 4][1] =>
                   Top.base_expr = Local(base + 3)

\* An initialiser of `local a = ..` after an outer `local a` names a: it
\* resolves to the new slot 1, not to the outer slot 0.
C30_OwnNameInInitialiser ==
    /\ Resolved
    /\ \E k \in 1..Len(stack) :
           /\ Directly(k, {"parse_locals_1"})
           /\ stack[k].start = 1
           /\ stack[k].num_names = 1
    /\ Cardinality(Bindings(locals, get_text(FirstToken))) = 2
    /\ Top.base_expr = Local(1)

\* The step expression of a numeric for after an outer `local a` names the
\* loop variable a: it resolves to the loop's fourth slot.
C30_LoopVariableInStep ==
    /\ Resolved
    /\ \E k \in 1..Len(stack) :
           /\ Directly(k, {"parse_numeric_for_step_1"})
           /\ stack[k].current_local_slot = 1
    /\ Cardinality(Bindings(locals, get_text(FirstToken))) = 2
    /\ Top.base_expr = Local(4)

=============================================================================
